---------------------------- MODULE Spec2Model ----------------------------
(***************************************************************************)
(* Region-to-text capture and field annotation of pdf-boundingbox.         *)
(*                                                                         *)
(* Geometry: a normalized coordinate c in [0,1] is held as the integer     *)
(* 1000*c, so ROW_TOL = 0.008 is 8 and MIN_RECT = 0.01 is 10, and every    *)
(* comparison and quotient of the source is computed exactly.              *)
(* Strings are sequences of one-character strings.                         *)
(* A word id `${page}-${index}` is the pair <<page, index>>.               *)
(***************************************************************************)
EXTENDS Integers, Sequences, FiniteSets, Bags, TLC

VARIABLES
    capWords,        \* captureTextInBox: argument `words`
    capBox,          \* captureTextInBox: argument `box`
    captured,        \* captureTextInBox: local `captured` after the sort
    capResult,       \* captureTextInBox: the returned { text, wordIds }
    capDone,         \* whether captureTextInBox has returned
    mode,            \* App: mode
    currentPage,     \* App: currentPage
    showBBoxes,      \* App: showBBoxes
    ocrResults,      \* App: ocrResults (page -> None or Some(OCRResult))
    selectedIds,     \* BoundingBoxOverlay: selectedIds (a Set, in insertion order)
    labelPopup,      \* BoundingBoxOverlay: labelPopup (TRUE when not null)
    labelInput,      \* BoundingBoxOverlay: labelInput
    dragState,       \* BoundingBoxOverlay: dragState (None or Some)
    pendingRect,     \* BoundingBoxOverlay: pendingRect (None or Some)
    pendingWordsRef, \* BoundingBoxOverlay: pendingWordsRef.current
    capturedTextRef, \* BoundingBoxOverlay: capturedTextRef.current
    fields,          \* useFieldStore: fields (a Map: its keys are the DOMAIN)
    colorIndex,      \* useFieldStore: colorIndex
    nextId,          \* the number of ids crypto.randomUUID() has handed out
    clearedAt,       \* history: nextId at the last clearAll (0 before any)
    pdfFile,         \* App: pdfFile (the document that is open)
    digitizedPages,  \* App: digitizedPages
    isOCRRunning,    \* App: isOCRRunning
    lastCanvasRef,   \* App: lastCanvasRef.current (None, or the page it shows)
    extractions,     \* extractPageText calls that have not settled yet
    recognitions,    \* recognizePage calls that have not settled yet
    numPages,        \* App: numPages
    fileNo,          \* history: how many files have been opened
    canvasFile,      \* history: the file whose page lastCanvasRef shows
    producedBy,      \* history: the file each stored entry was produced from
    event,           \* history: the handler that ran last and what it was given
    released,        \* history: what captureTextInBox returned for pendingRect
    adapterCall,     \* the adapter call under study and its arguments
    adapterResult,   \* None, or what that call produced
    workerInstance,  \* ocrService: workerInstance
    initPromise,     \* ocrService: initPromise
    creations,       \* the createWorker() calls so far and how each has settled
    callers,         \* the callers of initOCR and what each has received
    terminations,    \* terminateOCR calls awaiting terminate(), by worker
    terminated,      \* the workers whose terminate() has resolved
    lastIssued       \* history: the ocrService function called last

capVars == <<capWords, capBox, captured, capResult, capDone>>

appVars == <<mode, currentPage, showBBoxes, ocrResults>>

overlayVars ==
    <<selectedIds, labelPopup, labelInput, dragState, pendingRect,
      pendingWordsRef, capturedTextRef, released>>

storeVars == <<fields, colorIndex, nextId, clearedAt>>

pageVars ==
    <<pdfFile, digitizedPages, isOCRRunning, lastCanvasRef, extractions,
      recognitions, numPages, fileNo, canvasFile, producedBy>>

adapterVars == <<adapterCall, adapterResult>>

workerVars ==
    <<workerInstance, initPromise, creations, callers, terminations,
      terminated, lastIssued>>

vars ==
    <<capVars, appVars, pageVars, overlayVars, storeVars, event, adapterVars,
      workerVars>>

---------------------------------------------------------------------------
(* Bounds of the model *)

MaxWords == 3

\* Fields created in one run (the guard that caps colorIndex and nextId)
MaxFields == 1

\* extractPageText calls pending at once
MaxPending == 1

---------------------------------------------------------------------------
(* Numbers and strings as JavaScript computes them *)

Max2(a, b) == IF a >= b THEN a ELSE b

Min2(a, b) == IF a <= b THEN a ELSE b

Abs(a) == IF a < 0 THEN 0 - a ELSE a

\* Mutant of MathRound: truncation (Math.floor) instead of Math.round
MathRoundFloor(num, den) == num \div den

\* Math.round(num / den) for den > 0: the nearest integer, halves towards
\* +infinity, i.e. floor(num/den + 1/2).
MathRound(num, den) == (2 * num + den) \div (2 * den)

IsSpace(c) == c = " "

\* String.prototype.slice(start, end): negative indices count from the end,
\* both are clamped to [0, length], and start >= end gives "".
Slice(s, start, end) ==
    LET n == Len(s)
        from == IF start < 0 THEN Max2(n + start, 0) ELSE Min2(start, n)
        to == IF end < 0 THEN Max2(n + end, 0) ELSE Min2(end, n)
    IN  IF from >= to THEN <<>> ELSE SubSeq(s, from + 1, to)

RECURSIVE TrimStart(_)
TrimStart(s) ==
    IF s = <<>> THEN <<>>
    ELSE IF IsSpace(Head(s)) THEN TrimStart(Tail(s)) ELSE s

RECURSIVE TrimEnd(_)
TrimEnd(s) ==
    IF s = <<>> THEN <<>>
    ELSE IF IsSpace(s[Len(s)]) THEN TrimEnd(SubSeq(s, 1, Len(s) - 1)) ELSE s

\* String.prototype.trim()
Trim(s) == TrimEnd(TrimStart(s))

\* Array.prototype.join(' ') over an array of strings
RECURSIVE JoinSpace(_)
JoinSpace(ss) ==
    IF ss = <<>> THEN <<>>
    ELSE IF Len(ss) = 1 THEN ss[1]
    ELSE ss[1] \o <<" ">> \o JoinSpace(Tail(ss))

\* Array.prototype.map
MapSeq(s, F(_)) == [i \in 1..Len(s) |-> F(s[i])]

\* Array.prototype.filter
FilterSeq(s, P(_)) == SelectSeq(s, P)

Range(s) == {s[i] : i \in 1..Len(s)}

---------------------------------------------------------------------------
(* captureTextInBox *)

ROW_TOL == 8

BBox(x0, y0, x1, y1) == [x0 |-> x0, y0 |-> y0, x1 |-> x1, y1 |-> y1]

OCRWord(id, text, bbox) ==
    [id |-> id, text |-> text, confidence |-> 100, bbox |-> bbox]

\* Mutant of RowTest: full vertical containment instead of the midpoint test
RowTestContained(word, box) ==
    word.bbox.y0 >= box.y0 /\ word.bbox.y1 <= box.y1

\* cy = (y0 + y1) / 2;  if (cy < box.y0 || cy > box.y1) continue
RowTest(word, box) ==
    LET cy2 == word.bbox.y0 + word.bbox.y1
    IN  ~(cy2 < 2 * box.y0 \/ cy2 > 2 * box.y1)

OverlapX0(word, box) == Max2(word.bbox.x0, box.x0)

OverlapX1(word, box) == Min2(word.bbox.x1, box.x1)

\* Mutant of HasOverlap: `>` instead of `>=` (a touching edge counts)
HasOverlapTouching(word, box) ==
    ~(Max2(word.bbox.x0, box.x0) > Min2(word.bbox.x1, box.x1))

\* if (overlapX0 >= overlapX1) continue
HasOverlap(word, box) == ~(OverlapX0(word, box) >= OverlapX1(word, box))

FullyInside(word, box) ==
    word.bbox.x0 >= box.x0 /\ word.bbox.x1 <= box.x1

\* Mutant of StartRatioNum: the Math.max(0, ..) left out
StartRatioNumUnclamped(word, box) == box.x0 - word.bbox.x0

\* startRatio = Math.max(0, (box.x0 - word.bbox.x0) / wordW), as the numerator
\* of a fraction over wordW (wordW > 0 wherever the slicing branch is reached)
StartRatioNum(word, box) == Max2(0, box.x0 - word.bbox.x0)

\* endRatio = Math.min(1, (box.x1 - word.bbox.x0) / wordW), numerator over wordW
EndRatioNum(word, box) ==
    Min2(word.bbox.x1 - word.bbox.x0, box.x1 - word.bbox.x0)

\* startChar = Math.round(startRatio * n)
StartChar(word, box) ==
    MathRound(StartRatioNum(word, box) * Len(word.text),
              word.bbox.x1 - word.bbox.x0)

\* endChar = Math.round(endRatio * n)
EndChar(word, box) ==
    MathRound(EndRatioNum(word, box) * Len(word.text),
              word.bbox.x1 - word.bbox.x0)

\* The text one word contributes (lines 37-50)
Extracted(word, box) ==
    IF FullyInside(word, box) THEN word.text
    ELSE Trim(Slice(word.text, StartChar(word, box), EndChar(word, box)))

\* Mutant of Pushes: the `if (extracted)` test left out
PushesEmpty(word, box) ==
    /\ ~(word.bbox.y0 + word.bbox.y1 < 2 * box.y0
          \/ word.bbox.y0 + word.bbox.y1 > 2 * box.y1)
    /\ Max2(word.bbox.x0, box.x0) < Min2(word.bbox.x1, box.x1)
    /\ Len(word.text) # 0

\* Whether the loop body reaches captured.push for this word
Pushes(word, box) ==
    /\ RowTest(word, box)
    /\ HasOverlap(word, box)
    /\ Len(word.text) # 0
    /\ Extracted(word, box) # <<>>

Entry(word, box) ==
    [text |-> Extracted(word, box), id |-> word.id,
     y0 |-> word.bbox.y0, x0 |-> OverlapX0(word, box)]

\* The array `captured` when the for loop ends, in input order
RECURSIVE CaptureLoop(_, _)
CaptureLoop(words, box) ==
    IF words = <<>> THEN <<>>
    ELSE (IF Pushes(Head(words), box) THEN <<Entry(Head(words), box)>> ELSE <<>>)
         \o CaptureLoop(Tail(words), box)

\* The comparator handed to captured.sort
Compare(a, b) ==
    IF Abs(a.y0 - b.y0) > ROW_TOL THEN a.y0 - b.y0 ELSE a.x0 - b.x0

Sign(v) == IF v < 0 THEN 0 - 1 ELSE IF v > 0 THEN 1 ELSE 0

\* ECMAScript's "consistent comparison function" over the elements of s:
\* a strict weak ordering (the relation < and the relation = both transitive).
ConsistentComparator(s) ==
    \A i, j, k \in 1..Len(s) :
        LET ab == Sign(Compare(s[i], s[j]))
            bc == Sign(Compare(s[j], s[k]))
            ac == Sign(Compare(s[i], s[k]))
        IN  /\ (ab = 0 /\ bc = 0) => ac = 0
            /\ (ab < 0 /\ bc < 0) => ac < 0
            /\ (ab > 0 /\ bc > 0) => ac > 0

\* Stable insertion of e into the sorted sequence s (after its equals)
RECURSIVE InsertSorted(_, _)
InsertSorted(s, e) ==
    IF s = <<>> THEN <<e>>
    ELSE IF Compare(e, Head(s)) < 0 THEN <<e>> \o s
    ELSE <<Head(s)>> \o InsertSorted(Tail(s), e)

RECURSIVE StableSort(_)
StableSort(s) ==
    IF s = <<>> THEN <<>>
    ELSE InsertSorted(StableSort(SubSeq(s, 1, Len(s) - 1)), s[Len(s)])

SeqPermutations(s) ==
    {[i \in 1..Len(s) |-> s[p[i]]] :
        p \in {q \in [1..Len(s) -> 1..Len(s)] :
                  \A i, j \in 1..Len(s) : i # j => q[i] # q[j]}}

\* Array.prototype.sort(comparefn): the stable sorted order when comparefn is
\* a consistent comparison function for the elements; otherwise the order is
\* implementation-defined (ECMA-262, 23.1.3.30) and may be any permutation.
SortOutcomes(s) ==
    IF ConsistentComparator(s) THEN {StableSort(s)} ELSE SeqPermutations(s)

\* Every value `captured` can have after line 62
CaptureOutcomes(words, box) == SortOutcomes(CaptureLoop(words, box))

EntryText(c) == c.text

EntryId(c) == c.id

\* The returned object (lines 64-67)
CaptureReturn(sorted) ==
    [text |-> JoinSpace(MapSeq(sorted, EntryText)),
     wordIds |-> MapSeq(sorted, EntryId)]

\* The result of capturing nothing
NoResult == [text |-> <<>>, wordIds |-> <<>>]

---------------------------------------------------------------------------
(* App, BoundingBoxOverlay and the field store *)

\* null, and a value that is not null
None == <<>>

Some(v) == <<v>>

\* History: a handler ran whose arguments no property refers to
Other == [op |-> "other", arg |-> None]

MIN_RECT == 10

\* Math.min() and Math.max() of no arguments
PosInfinity == 1000000

NegInfinity == -1000000

FIELD_COLORS ==
    <<"#6c63ff", "#e74c3c", "#2ecc71", "#f39c12", "#1abc9c",
      "#e91e63", "#3498db", "#ff5722", "#9b59b6", "#00bcd4">>

Pages == {1, 2}

NumPages == Cardinality(Pages)

Invoice == <<"I", "n", "v", "o", "i", "c", "e">>

InvoiceNumber ==
    <<"I", "n", "v", "o", "i", "c", "e", " ", "N", "u", "m", "b", "e", "r">>

\* The text results of the document's pages (words in production order)
PageResult(p) ==
    IF p = 1
    THEN [pageNumber |-> 1,
          words |-> << OCRWord(<<1, 0>>, Invoice, BBox(300, 20, 700, 80)),
                       OCRWord(<<1, 1>>, <<"1", "2", "3">>, BBox(0, 20, 200, 80)) >>]
    ELSE [pageNumber |-> p,
          words |-> << OCRWord(<<p, 0>>, <<"T", "o", "t", "a", "l">>,
                               BBox(0, 20, 500, 80)) >>]

\* Documents: every page has a text result, or only page 1 has one
OcrConfigs ==
    { [p \in Pages |-> Some(PageResult(p))],
      [p \in Pages |-> IF p = 1 THEN Some(PageResult(p)) ELSE None] }

\* What the user can type into the label input
LabelInputs == {<<>>, <<" ">>, <<" ">> \o InvoiceNumber}

\* Where the pointer can be, in normalized overlay coordinates (toNorm)
PointXs == {0, 5, 500}

PointYs == {0, 100}

Points == {[x |-> px, y |-> py] : px \in PointXs, py \in PointYs}

\* getPageFields
GetPageFields(flds, p) == IF p \in DOMAIN flds THEN flds[p] ELSE <<>>

\* currentOCR?.words ?? []
WordsOf(ocr, p) == IF ocr[p] = None THEN <<>> ELSE ocr[p][1].words

Words == WordsOf(ocrResults, currentPage)

\* showBBoxes && (currentOCR || currentFields.length > 0)
OverlayMounted(show, ocr, p, flds) ==
    show /\ (ocr[p] # None \/ GetPageFields(flds, p) # <<>>)

Mounted == OverlayMounted(showBBoxes, ocrResults, currentPage, fields)

isFieldMode == mode = "field"

\* A freshly mounted overlay (the initial values of useState / useRef)
OverlayFresh ==
    /\ selectedIds' = <<>>
    /\ labelPopup' = FALSE
    /\ labelInput' = <<>>
    /\ dragState' = None
    /\ pendingRect' = None
    /\ pendingWordsRef' = <<>>
    /\ capturedTextRef' = <<>>
    /\ released' = None

\* After a change of the App's state or of the store: the overlay keeps its
\* state while it stays rendered and loses it when it is unmounted
OverlayRerender(show, ocr, p, flds) ==
    IF OverlayMounted(show, ocr, p, flds)
    THEN UNCHANGED overlayVars
    ELSE OverlayFresh

InitOverlayState ==
    /\ mode = "none"
    /\ currentPage = 1
    /\ showBBoxes = TRUE
    /\ selectedIds = <<>>
    /\ labelPopup = FALSE
    /\ labelInput = <<>>
    /\ dragState = None
    /\ pendingRect = None
    /\ pendingWordsRef = <<>>
    /\ capturedTextRef = <<>>
    /\ released = None
    /\ event = Other

\* The store as create() leaves it
InitStoreEmpty ==
    /\ fields = <<>>
    /\ colorIndex = 0
    /\ nextId = 0
    /\ clearedAt = 0

\* Set.prototype.has / delete / add on the selection
SetHas(set, id) == \E i \in 1..Len(set) : set[i] = id

SetDelete(set, id) == SelectSeq(set, LAMBDA e : e # id)

SetAdd(set, id) == IF SetHas(set, id) THEN set ELSE Append(set, id)

\* A pointer position is inside a rendered box (left/top inclusive)
InsideBox(pt, b) ==
    b.x0 <= pt.x /\ pt.x < b.x1 /\ b.y0 <= pt.y /\ pt.y < b.y1

\* Mutant of OnBackground: a pointer-down over a field box reaches the overlay
OnBackgroundWordsOnly(pt) ==
    \A i \in 1..Len(Words) : ~InsideBox(pt, Words[i].bbox)

\* e.target === e.currentTarget: the pointer is over no word box and no field box
OnBackground(pt) ==
    /\ \A i \in 1..Len(Words) : ~InsideBox(pt, Words[i].bbox)
    /\ \A i \in 1..Len(GetPageFields(fields, currentPage)) :
        ~InsideBox(pt, GetPageFields(fields, currentPage)[i].bbox)

\* Mutant of HandleWordClick: setLabelPopup(null) left out
HandleWordClickKeepsPopup(word, shiftKey) ==
    /\ Mounted
    /\ isFieldMode
    /\ dragState = None
    /\ selectedIds' = SetAdd(selectedIds, word.id)
    /\ event' = Other
    /\ UNCHANGED <<labelPopup, labelInput, dragState, pendingRect,
                   pendingWordsRef, capturedTextRef, released>>
    /\ UNCHANGED <<adapterVars, workerVars, capVars, pageVars, appVars, storeVars>>

\* What the overlay and the store held when a handler was entered
OverlayBefore ==
    [selectedIds |-> selectedIds, labelPopup |-> labelPopup,
     labelInput |-> labelInput, dragState |-> dragState,
     pendingRect |-> pendingRect, pendingWordsRef |-> pendingWordsRef,
     capturedTextRef |-> capturedTextRef, fields |-> fields,
     colorIndex |-> colorIndex]

\* Mutant of ClickedSelection: a plain click on the sole selected word keeps
\* it selected
ClickedSelectionNoSoleRule(prev, id, shiftKey) ==
    IF shiftKey
    THEN (IF SetHas(prev, id) THEN SetDelete(prev, id) ELSE SetAdd(prev, id))
    ELSE <<id>>

\* The Set `next` of handleWordClick (lines 73-85)
ClickedSelection(prev, id, shiftKey) ==
    IF shiftKey
    THEN (IF SetHas(prev, id) THEN SetDelete(prev, id) ELSE SetAdd(prev, id))
    ELSE IF SetHas(prev, id) /\ Len(prev) = 1
    THEN SetDelete(prev, id)
    ELSE <<id>>

\* handleWordClick; the click follows the mouseup on the same word box, which
\* handleMouseUp has already handled (dragState is null). Outside field mode
\* the handler returns at once
HandleWordClick(word, shiftKey) ==
    /\ Mounted
    /\ dragState = None
    /\ IF ~isFieldMode
       THEN UNCHANGED overlayVars
       ELSE /\ selectedIds' = ClickedSelection(selectedIds, word.id, shiftKey)
            /\ labelPopup' = FALSE
            /\ UNCHANGED <<labelInput, dragState, pendingRect, pendingWordsRef,
                           capturedTextRef, released>>
    /\ event' = [op |-> "wordClick",
                 arg |-> Some([id |-> word.id, shiftKey |-> shiftKey,
                               fieldMode |-> isFieldMode])]
    /\ UNCHANGED <<adapterVars, workerVars, capVars, pageVars, appVars, storeVars>>

\* handleMouseDown past its two early returns (outside field mode, and a
\* pointer that went down over a child of the overlay)
HandleMouseDown(pt) ==
    /\ Mounted
    /\ isFieldMode
    /\ OnBackground(pt)
    /\ dragState' = Some([start |-> pt, current |-> pt])
    /\ selectedIds' = <<>>
    /\ labelPopup' = FALSE
    /\ pendingRect' = None
    /\ released' = None
    /\ event' = [op |-> "mouseDown", arg |-> None]
    /\ UNCHANGED <<labelInput, pendingWordsRef, capturedTextRef>>
    /\ UNCHANGED <<adapterVars, workerVars, capVars, pageVars, appVars, storeVars>>

HandleMouseMove(pt) ==
    /\ Mounted
    /\ dragState # None
    /\ dragState' = Some([dragState[1] EXCEPT !.current = pt])
    /\ event' = Other
    /\ UNCHANGED <<selectedIds, labelPopup, labelInput, pendingRect,
                   pendingWordsRef, capturedTextRef, released>>
    /\ UNCHANGED <<adapterVars, workerVars, capVars, pageVars, appVars, storeVars>>

\* The rectangle between the drag's start and the release point
DragBBox(start, end) ==
    BBox(Min2(start.x, end.x), Min2(start.y, end.y),
         Max2(start.x, end.x), Max2(start.y, end.y))

\* Mutant of TinyRect: small in both axes instead of either
TinyRectBoth(bbox) ==
    (bbox.x1 - bbox.x0) < MIN_RECT /\ (bbox.y1 - bbox.y0) < MIN_RECT

TinyRect(bbox) ==
    (bbox.x1 - bbox.x0) < MIN_RECT \/ (bbox.y1 - bbox.y0) < MIN_RECT

IdIncluded(ids, id) == \E i \in 1..Len(ids) : ids[i] = id

\* handleMouseUp, the branch of lines 120-124
HandleMouseUpTiny(pt) ==
    /\ Mounted
    /\ dragState # None
    /\ TinyRect(DragBBox(dragState[1].start, pt))
    /\ dragState' = None
    /\ selectedIds' = <<>>
    /\ labelPopup' = FALSE
    /\ event' = [op |-> "mouseUp",
                 arg |-> Some(DragBBox(dragState[1].start, pt))]
    /\ UNCHANGED <<labelInput, pendingRect, pendingWordsRef, capturedTextRef,
                   released>>
    /\ UNCHANGED <<adapterVars, workerVars, capVars, pageVars, appVars, storeVars>>

\* handleMouseUp, lines 126-138
HandleMouseUpRect(pt) ==
    /\ Mounted
    /\ dragState # None
    /\ LET bbox == DragBBox(dragState[1].start, pt)
       IN  /\ ~TinyRect(bbox)
           /\ \E sorted \in CaptureOutcomes(Words, bbox) :
                LET res == CaptureReturn(sorted)
                IN  /\ pendingWordsRef' =
                           SelectSeq(Words, LAMBDA w : IdIncluded(res.wordIds, w.id))
                    /\ capturedTextRef' = res.text
                    /\ released' = Some([bbox |-> bbox, text |-> res.text,
                                          wordIds |-> res.wordIds])
           /\ pendingRect' = Some(bbox)
    /\ dragState' = None
    /\ labelInput' = <<>>
    /\ labelPopup' = TRUE
    /\ event' = [op |-> "mouseUp",
                 arg |-> Some(DragBBox(dragState[1].start, pt))]
    /\ UNCHANGED selectedIds
    /\ UNCHANGED <<adapterVars, workerVars, capVars, pageVars, appVars, storeVars>>

HandleMouseUp(pt) == HandleMouseUpTiny(pt) \/ HandleMouseUpRect(pt)

\* selectedWords = words.filter((w) => selectedIds.has(w.id))
SelectedWords == SelectSeq(Words, LAMBDA w : SetHas(selectedIds, w.id))

hasWordSelection == Len(SelectedWords) > 0 /\ pendingRect = None

\* The "Label as Field" action bar is rendered
SelectionBarShown == Mounted /\ isFieldMode /\ hasWordSelection /\ ~labelPopup

OpenPopupForSelection ==
    /\ SelectionBarShown
    /\ labelInput' = <<>>
    /\ labelPopup' = TRUE
    /\ event' = Other
    /\ UNCHANGED <<selectedIds, dragState, pendingRect, pendingWordsRef,
                   capturedTextRef, released>>
    /\ UNCHANGED <<adapterVars, workerVars, capVars, pageVars, appVars, storeVars>>

\* The bar's clear button: setSelectedIds(new Set())
ClearSelection ==
    /\ SelectionBarShown
    /\ selectedIds' = <<>>
    /\ event' = Other
    /\ UNCHANGED <<labelPopup, labelInput, dragState, pendingRect,
                   pendingWordsRef, capturedTextRef, released>>
    /\ UNCHANGED <<adapterVars, workerVars, capVars, pageVars, appVars, storeVars>>

\* The popup's input: onChange={(e) => setLabelInput(e.target.value)}
SetLabelInput(v) ==
    /\ Mounted
    /\ labelPopup
    /\ v # labelInput
    /\ labelInput' = v
    /\ event' = Other
    /\ UNCHANGED <<selectedIds, labelPopup, dragState, pendingRect,
                   pendingWordsRef, capturedTextRef, released>>
    /\ UNCHANGED <<adapterVars, workerVars, capVars, pageVars, appVars, storeVars>>

\* Math.min(...xs) / Math.max(...xs)
RECURSIVE MinOf(_)
MinOf(xs) == IF xs = <<>> THEN PosInfinity ELSE Min2(Head(xs), MinOf(Tail(xs)))

RECURSIVE MaxOf(_)
MaxOf(xs) == IF xs = <<>> THEN NegInfinity ELSE Max2(Head(xs), MaxOf(Tail(xs)))

mergeBBoxes(bboxes) ==
    BBox(MinOf([i \in 1..Len(bboxes) |-> bboxes[i].x0]),
         MinOf([i \in 1..Len(bboxes) |-> bboxes[i].y0]),
         MaxOf([i \in 1..Len(bboxes) |-> bboxes[i].x1]),
         MaxOf([i \in 1..Len(bboxes) |-> bboxes[i].y1]))

\* Mutant of NextColor: the position is the number of fields the store holds
NextColorByCount(ci) ==
    LET RECURSIVE Held(_)
        Held(ps) == IF ps = {} THEN 0
                    ELSE LET p == CHOOSE q \in ps : TRUE
                         IN  Len(fields[p]) + Held(ps \ {p})
    IN  FIELD_COLORS[(Held(DOMAIN fields) % Len(FIELD_COLORS)) + 1]

\* FIELD_COLORS[get().colorIndex % FIELD_COLORS.length]
NextColor(ci) == FIELD_COLORS[(ci % Len(FIELD_COLORS)) + 1]

\* The Map `next` of storeField, with `field` appended to its page
FieldsWith(flds, field) ==
    [p \in (DOMAIN flds) \cup {field.pageNumber} |->
        IF p = field.pageNumber
        THEN Append(GetPageFields(flds, p), field)
        ELSE flds[p]]

\* storeField; id is crypto.randomUUID() and createdAt is Date.now(), both
\* held as the serial number of the creation
storeField(field) ==
    /\ fields' = FieldsWith(fields, field)
    /\ colorIndex' = colorIndex + 1
    /\ nextId' = nextId + 1
    /\ clearedAt' = clearedAt

\* The words of a selection, as the value addField builds from them
WordsValue(words) == JoinSpace([i \in 1..Len(words) |-> words[i].text])

addField(pageNumber, label, words) ==
    storeField([id |-> nextId,
                pageNumber |-> pageNumber,
                label |-> label,
                value |-> WordsValue(words),
                bbox |-> mergeBBoxes([i \in 1..Len(words) |-> words[i].bbox]),
                wordIds |-> [i \in 1..Len(words) |-> words[i].id],
                color |-> NextColor(colorIndex),
                createdAt |-> nextId])

addFieldRect(pageNumber, label, bbox, value, wordIds) ==
    storeField([id |-> nextId,
                pageNumber |-> pageNumber,
                label |-> label,
                value |-> value,
                bbox |-> bbox,
                wordIds |-> wordIds,
                color |-> NextColor(colorIndex),
                createdAt |-> nextId])

\* Mutant of SavedRectBBox: the union of the captured words' boxes
SavedRectBBoxUnion ==
    mergeBBoxes([i \in 1..Len(pendingWordsRef) |-> pendingWordsRef[i].bbox])

\* The bbox handleSaveField hands to addFieldRect
SavedRectBBox == pendingRect[1]

\* Mutant of SubmittedLabel: labelInput without the trim
SubmittedLabelUntrimmed == labelInput

\* const label = labelInput.trim()
SubmittedLabel == Trim(labelInput)

\* handleSaveField: the early return of line 155, or the rectangle branch
\* (lines 157-169), the selection branch (lines 170-174) or neither, then
\* lines 175-176
HandleSaveField ==
    /\ Mounted
    /\ labelPopup
    /\ IF SubmittedLabel = <<>>
       THEN /\ event' = [op |-> "saveEmpty",
                         arg |-> Some([input |-> labelInput,
                                       entered |-> OverlayBefore])]
            /\ UNCHANGED <<overlayVars, storeVars>>
       ELSE IF pendingRect # None
       THEN /\ nextId < MaxFields
            /\ addFieldRect(currentPage, SubmittedLabel, SavedRectBBox,
                            capturedTextRef,
                            [i \in 1..Len(pendingWordsRef) |-> pendingWordsRef[i].id])
            /\ pendingWordsRef' = <<>>
            /\ capturedTextRef' = <<>>
            /\ pendingRect' = None
            /\ released' = None
            /\ event' = [op |-> "saveRect",
                         arg |-> Some([capture |-> released[1],
                                       input |-> labelInput,
                                       before |-> GetPageFields(fields, currentPage)])]
            /\ labelPopup' = FALSE
            /\ labelInput' = <<>>
            /\ UNCHANGED <<selectedIds, dragState>>
       ELSE IF Len(selectedIds) > 0
       THEN /\ nextId < MaxFields
            /\ addField(currentPage, SubmittedLabel, SelectedWords)
            /\ selectedIds' = <<>>
            /\ event' = [op |-> "saveWords",
                         arg |-> Some([selected |-> selectedIds,
                                       input |-> labelInput,
                                       before |-> GetPageFields(fields, currentPage)])]
            /\ labelPopup' = FALSE
            /\ labelInput' = <<>>
            /\ UNCHANGED <<pendingRect, pendingWordsRef, capturedTextRef,
                           released, dragState>>
       ELSE /\ event' = [op |-> "saveNone",
                         arg |-> Some([input |-> labelInput])]
            /\ labelPopup' = FALSE
            /\ labelInput' = <<>>
            /\ UNCHANGED <<selectedIds, pendingRect, pendingWordsRef,
                           capturedTextRef, released, dragState>>
            /\ UNCHANGED storeVars
    /\ UNCHANGED <<adapterVars, workerVars, capVars, pageVars, appVars>>

\* Mutant of CancelPopup: setPendingRect(null) left out
CancelPopupKeepsRect ==
    /\ Mounted
    /\ labelPopup
    /\ labelPopup' = FALSE
    /\ selectedIds' = <<>>
    /\ event' = [op |-> "cancel", arg |-> Some([entered |-> OverlayBefore])]
    /\ UNCHANGED <<labelInput, dragState, pendingRect, pendingWordsRef,
                   capturedTextRef, released>>
    /\ UNCHANGED <<adapterVars, workerVars, capVars, pageVars, appVars, storeVars>>

CancelPopup ==
    /\ Mounted
    /\ labelPopup
    /\ labelPopup' = FALSE
    /\ pendingRect' = None
    /\ released' = None
    /\ selectedIds' = <<>>
    /\ event' = [op |-> "cancel", arg |-> Some([entered |-> OverlayBefore])]
    /\ UNCHANGED <<labelInput, dragState, pendingWordsRef, capturedTextRef>>
    /\ UNCHANGED <<adapterVars, workerVars, capVars, pageVars, appVars, storeVars>>

\* Mutant of FieldsWithout: the filter's test inverted (f.id === id)
FieldsOnly(flds, id, pageNumber) ==
    [p \in (DOMAIN flds) \cup {pageNumber} |->
        IF p = pageNumber
        THEN SelectSeq(GetPageFields(flds, p), LAMBDA f : f.id = id)
        ELSE flds[p]]

\* Mutant of FieldsWithout: the filter runs over the fields of every page
FieldsWithoutAnyPage(flds, id, pageNumber) ==
    [p \in (DOMAIN flds) \cup {pageNumber} |->
        SelectSeq(GetPageFields(flds, p), LAMBDA f : f.id # id)]

\* The Map `next` of removeField
FieldsWithout(flds, id, pageNumber) ==
    [p \in (DOMAIN flds) \cup {pageNumber} |->
        IF p = pageNumber
        THEN SelectSeq(GetPageFields(flds, p), LAMBDA f : f.id # id)
        ELSE flds[p]]

\* removeField(fa.id, pageNumber) from a field box's delete button or from
\* the sidebar's field list, both of the current page
RemoveField(id) ==
    /\ \E i \in 1..Len(GetPageFields(fields, currentPage)) :
        GetPageFields(fields, currentPage)[i].id = id
    /\ fields' = FieldsWithout(fields, id, currentPage)
    /\ event' = Other
    /\ OverlayRerender(showBBoxes, ocrResults, currentPage, fields')
    /\ UNCHANGED <<colorIndex, nextId, clearedAt>>
    /\ UNCHANGED <<adapterVars, workerVars, capVars, pageVars, appVars>>

\* The toolbar's mode buttons (MODES holds 'field' only): onModeChange(m),
\* which is the App's setMode
SetMode(m) ==
    /\ mode # m
    /\ mode' = m
    /\ event' = [op |-> "setMode", arg |-> Some([from |-> mode])]
    /\ UNCHANGED <<currentPage, showBBoxes, ocrResults>>
    /\ UNCHANGED <<adapterVars, workerVars, capVars, pageVars, overlayVars, storeVars>>

PrevPage ==
    /\ currentPage > 1
    /\ currentPage' = Max2(1, currentPage - 1)
    /\ event' = Other
    /\ OverlayRerender(showBBoxes, ocrResults, currentPage', fields)
    /\ UNCHANGED <<mode, showBBoxes, ocrResults>>
    /\ UNCHANGED <<adapterVars, workerVars, capVars, pageVars, storeVars>>

NextPage ==
    /\ currentPage < numPages
    /\ currentPage' = Min2(numPages, currentPage + 1)
    /\ event' = Other
    /\ OverlayRerender(showBBoxes, ocrResults, currentPage', fields)
    /\ UNCHANGED <<mode, showBBoxes, ocrResults>>
    /\ UNCHANGED <<adapterVars, workerVars, capVars, pageVars, storeVars>>

ToggleBBoxes ==
    /\ showBBoxes' = ~showBBoxes
    /\ event' = Other
    /\ OverlayRerender(showBBoxes', ocrResults, currentPage, fields)
    /\ UNCHANGED <<mode, currentPage, ocrResults>>
    /\ UNCHANGED <<adapterVars, workerVars, capVars, pageVars, storeVars>>

---------------------------------------------------------------------------
(* Page text: extractPageText, recognizePage and the App's handlers *)

\* A pdf.js text item; a marked-content item has no `str`
TextItem(str, tx, ty, width, height) ==
    [kind |-> "text", str |-> str, transform |-> <<10, 0, 0, 10, tx, ty>>,
     width |-> width, height |-> height]

MarkedContent ==
    [kind |-> "marked", str |-> <<>>, transform |-> <<0, 0, 0, 0, 0, 0>>,
     width |-> 0, height |-> 0]

\* A page proxy: its view box and what getTextContent() resolves to
PdfPageProxy(view, items) == [view |-> view, items |-> items]

\* The type guard of the filter: an object with a string `str`
IsTextItem(item) == item.kind = "text"

\* The filter of lines 40-47
KeepsItem(item) == IsTextItem(item) /\ Len(Trim(item.str)) > 0

\* Math.hypot for a transform without rotation or skew
Hypot(a, b) == IF b = 0 THEN Abs(a) ELSE IF a = 0 THEN Abs(b) ELSE Max2(Abs(a), Abs(b))

\* The number NaN; PosInfinity and NegInfinity are the two infinities
NaN == 2000000

\* n / d in thousandths, as IEEE 754 division gives it: a zero divisor
\* yields an infinity, or NaN for 0 / 0 (the inputs make the quotients exact)
JsDiv(n, d) ==
    IF d = 0
    THEN IF n = 0 THEN NaN ELSE IF n > 0 THEN PosInfinity ELSE NegInfinity
    ELSE IF d > 0
    THEN (1000 * n) \div d
    ELSE (1000 * (0 - n)) \div (0 - d)

\* 1 - v in thousandths
OneMinus(v) ==
    IF v = NaN THEN NaN
    ELSE IF v = PosInfinity THEN NegInfinity
    ELSE IF v = NegInfinity THEN PosInfinity
    ELSE 1000 - v

\* Math.min and Math.max of two numbers: NaN if either is NaN
MathMin(a, b) == IF a = NaN \/ b = NaN THEN NaN ELSE Min2(a, b)

MathMax(a, b) == IF a = NaN \/ b = NaN THEN NaN ELSE Max2(a, b)

\* Math.max(0, Math.min(1, v)) in thousandths
Clamp01(v) == MathMax(0, MathMin(1000, v))

\* The bbox of lines 68-91, in thousandths of the page (the inputs make the
\* quotients exact)
ItemBBox(item, view) ==
    LET pageLeft == view[1]
        pageBottom == view[2]
        pageWidth == view[3] - pageLeft
        pageHeight == view[4] - pageBottom
        tx == item.transform[5] - pageLeft
        ty == item.transform[6] - pageBottom
        itemWidth == Abs(item.width)
        fontSizeApprox == Hypot(item.transform[1], item.transform[2])
        itemHeight == IF item.height > 0 THEN item.height ELSE fontSizeApprox
        x0 == JsDiv(tx, pageWidth)
        y0 == OneMinus(JsDiv(ty + itemHeight, pageHeight))
        x1 == JsDiv(tx + itemWidth, pageWidth)
        y1 == OneMinus(JsDiv(ty, pageHeight))
    IN  BBox(Clamp01(x0), Clamp01(y0), Clamp01(x1), Clamp01(y1))

\* The id `${pageNumber}-emb-${index}`
EmbeddedId(pageNumber, index) == <<pageNumber, "emb", index>>

\* The loop of lines 62-93 over the filtered items (`if (!text) continue`
\* skips an item without advancing index)
RECURSIVE EmbeddedWords(_, _, _, _)
EmbeddedWords(textItems, view, pageNumber, index) ==
    IF textItems = <<>>
    THEN <<>>
    ELSE LET item == Head(textItems)
             text == Trim(item.str)
         IN  IF text = <<>>
             THEN EmbeddedWords(Tail(textItems), view, pageNumber, index)
             ELSE <<[id |-> EmbeddedId(pageNumber, index),
                     text |-> text,
                     bbox |-> ItemBBox(item, view)]>>
                  \o EmbeddedWords(Tail(textItems), view, pageNumber, index + 1)

\* Mutant of extractPageText: the two `return null` left out
extractPageTextNeverNull(page, pageNumber) ==
    LET textItems == SelectSeq(page.items, LAMBDA item :
                                   IsTextItem(item) /\ Len(Trim(item.str)) > 0)
    IN  Some([pageNumber |-> pageNumber,
              words |-> <<>>,
              fullText |-> JoinSpace([i \in 1..Len(textItems) |->
                                          textItems[i].str])])

\* extractPageText: None is null
extractPageText(page, pageNumber) ==
    LET textItems == SelectSeq(page.items, KeepsItem)
        words == EmbeddedWords(textItems, page.view, pageNumber, 0)
    IN  IF Len(textItems) = 0
        THEN None
        ELSE IF Len(words) = 0
        THEN None
        ELSE Some([pageNumber |-> pageNumber,
                   words |-> words,
                   fullText |-> JoinSpace([i \in 1..Len(textItems) |->
                                               textItems[i].str])])

\* The canvas's physical size (canvas.width, canvas.height)
CanvasWidth == 2000

CanvasHeight == 2000

\* What Tesseract reads on a canvas that shows page p: the words of
\* PageResult(p) with their boxes in canvas pixels
TesseractWords(p) ==
    LET ws == PageResult(p).words
    IN  [i \in 1..Len(ws) |->
            [text |-> ws[i].text,
             bbox |-> BBox((ws[i].bbox.x0 * CanvasWidth) \div 1000,
                           (ws[i].bbox.y0 * CanvasHeight) \div 1000,
                           (ws[i].bbox.x1 * CanvasWidth) \div 1000,
                           (ws[i].bbox.y1 * CanvasHeight) \div 1000)]]

\* Mutant of RecognizedWords: wordIndex advances on a skipped word too
RECURSIVE RecognizedWordsByPosition(_, _, _)
RecognizedWordsByPosition(raw, pageNumber, wordIndex) ==
    IF raw = <<>>
    THEN <<>>
    ELSE IF Trim(Head(raw).text) = <<>>
    THEN RecognizedWordsByPosition(Tail(raw), pageNumber, wordIndex + 1)
    ELSE <<OCRWord(<<pageNumber, wordIndex>>, Head(raw).text, Head(raw).bbox)>>
         \o RecognizedWordsByPosition(Tail(raw), pageNumber, wordIndex + 1)

\* The loop of recognizePage over the recognized words
RECURSIVE RecognizedWords(_, _, _)
RecognizedWords(raw, pageNumber, wordIndex) ==
    IF raw = <<>>
    THEN <<>>
    ELSE IF Trim(Head(raw).text) = <<>>
    THEN RecognizedWords(Tail(raw), pageNumber, wordIndex)
    ELSE <<OCRWord(<<pageNumber, wordIndex>>, Head(raw).text, Head(raw).bbox)>>
         \o RecognizedWords(Tail(raw), pageNumber, wordIndex + 1)

\* recognizePage(source, pageNumber); `data` is the words worker.recognize
\* resolved to for source
recognizePage(data, pageNumber) ==
    [pageNumber |-> pageNumber,
     words |-> RecognizedWords(data, pageNumber, 0),
     fullText |-> JoinSpace([i \in 1..Len(data) |-> data[i].text])]

\* runOCR, lines 258-271: the boxes divided by the canvas size
Normalized(result, cw, ch) ==
    [result EXCEPT !.words =
        [i \in 1..Len(result.words) |->
            [result.words[i] EXCEPT !.bbox =
                BBox(JsDiv(result.words[i].bbox.x0, cw),
                     JsDiv(result.words[i].bbox.y0, ch),
                     JsDiv(result.words[i].bbox.x1, cw),
                     JsDiv(result.words[i].bbox.y1, ch))]]]

\* Text items a page can hold
Blank == TextItem(<<" ">>, 50, 400, 10, 20)

TextA == TextItem(<<" ", "A">>, 100, 300, 50, 0)

TextB == TextItem(<<"B", " ">>, 250, 100, 100, 20)

ItemPool == {MarkedContent, Blank, TextA}

\* Items on one page
MaxItems == 2

PageItemLists ==
    UNION {[1..n -> ItemPool] : n \in 0..MaxItems}

PageView == <<0, 0, 500, 500>>

\* Documents of two pages: page 1 holds any item list, page 2 is a scan or
\* holds one text item
Docs ==
    {[p \in Pages |-> PdfPageProxy(PageView, IF p = 1 THEN items ELSE second)] :
        items \in PageItemLists, second \in {<<>>, <<TextB>>}}

\* A scanned document: no page has a text item
ScannedDoc == [p \in Pages |-> PdfPageProxy(PageView, <<>>)]

\* A store that holds one field committed on page 1 before the document was
\* opened
KeptField ==
    [id |-> 0, pageNumber |-> 1, label |-> InvoiceNumber, value |-> <<>>,
     bbox |-> BBox(0, 0, 500, 100), wordIds |-> <<>>,
     color |-> NextColor(0), createdAt |-> 0]

InitStoreKept ==
    /\ fields = FieldsWith(<<>>, KeptField)
    /\ colorIndex = 1
    /\ nextId = 1
    /\ clearedAt = 0

\* No adapter call is under study
InitAdapterIdle ==
    /\ adapterCall = None
    /\ adapterResult = None

\* Callers of initOCR
MaxCallers == 3

Callers == 1..MaxCallers

\* ocrService as the module is loaded: no worker, no call of initOCR yet
InitWorkerState ==
    /\ workerInstance = None
    /\ initPromise = None
    /\ creations = <<>>
    /\ callers = [c \in Callers |-> [at |-> "idle"]]
    /\ terminations = EmptyBag
    /\ terminated = {}
    /\ lastIssued = "none"

\* No stored entry yet: neither a result nor a digitized mark for any page
NothingProduced ==
    [results |-> [p \in Pages |-> None], digitized |-> [p \in Pages |-> None]]

\* The App's page state when nothing is pending and the document is loaded
InitPageState ==
    /\ digitizedPages = {}
    /\ isOCRRunning = FALSE
    /\ lastCanvasRef = None
    /\ extractions = EmptyBag
    /\ recognitions = {}
    /\ numPages = NumPages
    /\ fileNo = 1
    /\ canvasFile = 1
    /\ producedBy = NothingProduced

\* handlePageProxy up to its await: PDFViewer hands over the proxy of the
\* page it shows
HandlePageProxy(pageNumber) ==
    /\ numPages # 0
    /\ pageNumber = currentPage
    /\ ocrResults[pageNumber] = None
    /\ BagCardinality(extractions) < MaxPending
    /\ extractions' = extractions (+) SetToBag({[pageNumber |-> pageNumber,
                                                 page |-> pdfFile[pageNumber],
                                                 file |-> fileNo]})
    /\ event' = Other
    /\ UNCHANGED <<pdfFile, digitizedPages, isOCRRunning, lastCanvasRef,
                   recognitions, numPages, fileNo, canvasFile, producedBy>>
    /\ UNCHANGED <<adapterVars, workerVars, capVars, appVars, overlayVars, storeVars>>

\* The result handlePageProxy stores (lines 236-240)
SlotAfterExtraction(prev, pageNumber, result) ==
    [prev EXCEPT ![pageNumber] = Some(result)]

\* handlePageProxy after its await: extractPageText resolved (lines 234-242)
\* or rejected (lines 243-246)
ExtractionSettles(call, rejected) ==
    /\ BagIn(call, extractions)
    /\ extractions' = extractions (-) SetToBag({call})
    /\ LET result == extractPageText(call.page, call.pageNumber)
       IN  /\ IF ~rejected /\ result # None
              THEN /\ ocrResults' =
                        SlotAfterExtraction(ocrResults, call.pageNumber, result[1])
                   /\ digitizedPages' = digitizedPages \cup {call.pageNumber}
                   /\ producedBy' =
                        [results |-> [producedBy.results EXCEPT
                                         ![call.pageNumber] = Some(call.file)],
                         digitized |-> [producedBy.digitized EXCEPT
                                         ![call.pageNumber] =
                                             IF call.pageNumber \in digitizedPages
                                             THEN @ ELSE Some(call.file)]]
              ELSE UNCHANGED <<ocrResults, digitizedPages, producedBy>>
           /\ event' = [op |-> "extracted",
                        arg |-> Some([pageNumber |-> call.pageNumber,
                                      page |-> call.page,
                                      rejected |-> rejected,
                                      result |-> result,
                                      before |-> ocrResults,
                                      digitized |-> digitizedPages])]
    /\ UNCHANGED <<mode, currentPage, showBBoxes>>
    /\ UNCHANGED <<pdfFile, isOCRRunning, lastCanvasRef, recognitions,
                   numPages, fileNo, canvasFile>>
    /\ UNCHANGED <<adapterVars, workerVars, capVars, overlayVars, storeVars>>

\* handlePageRender: the canvas of the page on display was painted
HandlePageRender ==
    /\ numPages # 0
    /\ lastCanvasRef # Some(currentPage) \/ canvasFile # fileNo
    /\ lastCanvasRef' = Some(currentPage)
    /\ canvasFile' = fileNo
    /\ event' = Other
    /\ UNCHANGED <<pdfFile, digitizedPages, isOCRRunning, extractions,
                   recognitions, numPages, fileNo, producedBy>>
    /\ UNCHANGED <<adapterVars, workerVars, capVars, appVars, overlayVars, storeVars>>

\* Mutant of RunOCREnabled: the button is not disabled while OCR is running
RunOCREnabledWhileRunning ==
    ~(numPages = 0 \/ currentPage \in digitizedPages)

\* The toolbar's Run OCR button is enabled
RunOCREnabled ==
    ~(isOCRRunning \/ numPages = 0 \/ currentPage \in digitizedPages)

\* runOCR up to its await
RunOCR ==
    /\ RunOCREnabled
    /\ lastCanvasRef # None
    /\ isOCRRunning' = TRUE
    /\ recognitions' = recognitions \cup {[pageNumber |-> currentPage,
                                            canvas |-> lastCanvasRef[1],
                                            file |-> canvasFile]}
    /\ event' = Other
    /\ UNCHANGED <<pdfFile, digitizedPages, lastCanvasRef, extractions,
                   numPages, fileNo, canvasFile, producedBy>>
    /\ UNCHANGED <<adapterVars, workerVars, capVars, appVars, overlayVars, storeVars>>

\* Mutant of SlotAfterRecognition: keyed by the page on display at completion
SlotAfterRecognitionCurrent(prev, pageNumber, normalized) ==
    [prev EXCEPT ![currentPage] = Some(normalized)]

\* The result runOCR stores (lines 272-276); pageNumber is the currentPage
\* of the render that created the callback
SlotAfterRecognition(prev, pageNumber, normalized) ==
    [prev EXCEPT ![pageNumber] = Some(normalized)]

\* Mutant of SlotsAfterFailure: a failed call empties the slot of its page
SlotsAfterFailureEmptied(prev, pageNumber) == [prev EXCEPT ![pageNumber] = None]

\* The catch block of runOCR (lines 277-278) logs and sets nothing
SlotsAfterFailure(prev, pageNumber) == prev

\* Mutant of RunningAfterSettle: the reset sits in the try block
RunningAfterSettleInTry(rejected) == rejected

\* The finally block of runOCR (lines 279-281): setIsOCRRunning(false)
RunningAfterSettle(rejected) == FALSE

\* runOCR after its await: recognizePage resolved (lines 255-276) or rejected
\* (lines 277-278), then the finally block
RecognitionSettles(call, rejected) ==
    /\ call \in recognitions
    /\ recognitions' = recognitions \ {call}
    /\ LET normalized ==
               Normalized(recognizePage(TesseractWords(call.canvas),
                                        call.pageNumber),
                          CanvasWidth, CanvasHeight)
       IN  /\ IF ~rejected
              THEN ocrResults' =
                       SlotAfterRecognition(ocrResults, call.pageNumber, normalized)
              ELSE ocrResults' = SlotsAfterFailure(ocrResults, call.pageNumber)
           /\ producedBy' =
                IF rejected THEN producedBy
                ELSE [producedBy EXCEPT
                         !.results[call.pageNumber] = Some(call.file)]
           /\ event' = [op |-> "recognized",
                        arg |-> Some([pageNumber |-> call.pageNumber,
                                      rejected |-> rejected,
                                      result |-> normalized,
                                      shown |-> currentPage,
                                      before |-> ocrResults,
                                      digitized |-> digitizedPages,
                                      fields |-> fields])]
    /\ isOCRRunning' = RunningAfterSettle(rejected)
    /\ UNCHANGED <<mode, currentPage, showBBoxes>>
    /\ UNCHANGED <<pdfFile, digitizedPages, lastCanvasRef, extractions,
                   numPages, fileNo, canvasFile>>
    /\ UNCHANGED <<adapterVars, workerVars, capVars, overlayVars, storeVars>>

---------------------------------------------------------------------------
(* Specification of the page text results of an open document *)

InitPages ==
    /\ InitOverlayState
    /\ (InitStoreEmpty \/ InitStoreKept)
    /\ InitPageState
    /\ InitAdapterIdle
    /\ InitWorkerState
    /\ pdfFile \in Docs
    /\ ocrResults = [p \in Pages |-> None]
    /\ capWords = <<>>
    /\ capBox = BBox(0, 0, 0, 0)
    /\ captured = <<>>
    /\ capResult = NoResult
    /\ capDone = FALSE

NextPages ==
    \/ \E p \in Pages : HandlePageProxy(p)
    \/ \E call \in BagToSet(extractions), rejected \in BOOLEAN :
        ExtractionSettles(call, rejected)
    \/ HandlePageRender
    \/ RunOCR
    \/ \E call \in recognitions, rejected \in BOOLEAN :
        RecognitionSettles(call, rejected)
    \/ PrevPage
    \/ NextPage

SpecPages == InitPages /\ [][NextPages]_vars

---------------------------------------------------------------------------
(* Opening another file while the page pipeline runs *)

\* Files opened in one run, the first included
MaxFiles == 2

\* A document with embedded text on both pages
TextDoc ==
    [p \in Pages |-> PdfPageProxy(PageView, IF p = 1 THEN <<TextA>> ELSE <<TextB>>)]

\* The files the user opens
OpenableDocs == {ScannedDoc, TextDoc}

\* setOcrResults(new Map()) of handleOpenFile (line 153)
ResultsAfterOpen == [p \in Pages |-> None]

\* handleOpenFile(file), lines 150-154; the bytes read after its await (lines
\* 156-157) are used by the export only. Calls that are pending stay pending,
\* lastCanvasRef and the field store are not touched
HandleOpenFile(file) ==
    /\ fileNo < MaxFiles
    /\ pdfFile' = file
    /\ currentPage' = 1
    /\ numPages' = 0
    /\ ocrResults' = ResultsAfterOpen
    /\ digitizedPages' = {}
    /\ fileNo' = fileNo + 1
    /\ producedBy' = NothingProduced
    /\ event' = [op |-> "openFile", arg |-> None]
    /\ OverlayRerender(showBBoxes, ocrResults', currentPage', fields)
    /\ UNCHANGED <<mode, showBBoxes>>
    /\ UNCHANGED <<isOCRRunning, lastCanvasRef, canvasFile, extractions,
                   recognitions>>
    /\ UNCHANGED <<adapterVars, workerVars, capVars, storeVars>>

\* handleDocumentLoad(n): PDFViewer's Document has loaded the file
HandleDocumentLoad ==
    /\ numPages = 0
    /\ numPages' = NumPages
    /\ currentPage' = 1
    /\ event' = Other
    /\ OverlayRerender(showBBoxes, ocrResults, currentPage', fields)
    /\ UNCHANGED <<mode, showBBoxes, ocrResults>>
    /\ UNCHANGED <<pdfFile, digitizedPages, isOCRRunning, lastCanvasRef,
                   canvasFile, extractions, recognitions, fileNo, producedBy>>
    /\ UNCHANGED <<adapterVars, workerVars, capVars, storeVars>>

InitDocs ==
    /\ InitOverlayState
    /\ InitStoreEmpty
    /\ InitPageState
    /\ InitAdapterIdle
    /\ InitWorkerState
    /\ pdfFile \in OpenableDocs
    /\ ocrResults = [p \in Pages |-> None]
    /\ capWords = <<>>
    /\ capBox = BBox(0, 0, 0, 0)
    /\ captured = <<>>
    /\ capResult = NoResult
    /\ capDone = FALSE

NextDocs ==
    \/ \E p \in Pages : HandlePageProxy(p)
    \/ \E call \in BagToSet(extractions), rejected \in BOOLEAN :
        ExtractionSettles(call, rejected)
    \/ HandlePageRender
    \/ RunOCR
    \/ \E call \in recognitions, rejected \in BOOLEAN :
        RecognitionSettles(call, rejected)
    \/ PrevPage
    \/ NextPage
    \/ \E file \in OpenableDocs : HandleOpenFile(file)
    \/ HandleDocumentLoad

SpecDocs == InitDocs /\ [][NextDocs]_vars

---------------------------------------------------------------------------
(* The field store's operations, called directly *)

\* Mutant of FieldsRelabelled: the test f.id === id left out
FieldsRelabelledAll(flds, id, pageNumber, label) ==
    [p \in (DOMAIN flds) \cup {pageNumber} |->
        IF p = pageNumber
        THEN [i \in 1..Len(GetPageFields(flds, p)) |->
                 [GetPageFields(flds, p)[i] EXCEPT !.label = label]]
        ELSE flds[p]]

\* The Map `next` of updateLabel
FieldsRelabelled(flds, id, pageNumber, label) ==
    [p \in (DOMAIN flds) \cup {pageNumber} |->
        IF p = pageNumber
        THEN [i \in 1..Len(GetPageFields(flds, p)) |->
                 IF GetPageFields(flds, p)[i].id = id
                 THEN [GetPageFields(flds, p)[i] EXCEPT !.label = label]
                 ELSE GetPageFields(flds, p)[i]]
        ELSE flds[p]]

\* The Map `next` of clearPage
FieldsCleared(flds, pageNumber) ==
    [p \in (DOMAIN flds) \ {pageNumber} |-> flds[p]]

\* The fields of all pages
HeldFields(flds) == UNION {Range(flds[p]) : p \in DOMAIN flds}

\* The number of fields the store holds, over all pages
LiveCount(flds) ==
    LET RECURSIVE Sum(_)
        Sum(ps) == IF ps = {} THEN 0
                   ELSE LET p == CHOOSE q \in ps : TRUE
                        IN  Len(flds[p]) + Sum(ps \ {p})
    IN  Sum(DOMAIN flds)

\* What the store held before a call
StoreBefore(id, pageNumber) ==
    Some([id |-> id, pageNumber |-> pageNumber, fields |-> fields,
          colorIndex |-> colorIndex])

\* Labels, words and a rectangle the calls are given
StoreLabel == <<"A">>

NewLabel == <<"B">>

StoreRect == BBox(0, 0, 500, 100)

StoreAddField(pageNumber, maxLive, maxCreated) ==
    /\ LiveCount(fields) < maxLive
    /\ nextId < maxCreated
    /\ addField(pageNumber, StoreLabel, PageResult(pageNumber).words)
    /\ event' = Other
    /\ UNCHANGED <<adapterVars, workerVars, capVars, appVars, pageVars, overlayVars>>

\* addFieldRect(pageNumber, label, bbox): value and wordIds take their defaults
StoreAddFieldRect(pageNumber, maxLive, maxCreated) ==
    /\ LiveCount(fields) < maxLive
    /\ nextId < maxCreated
    /\ addFieldRect(pageNumber, StoreLabel, StoreRect, <<>>, <<>>)
    /\ event' = Other
    /\ UNCHANGED <<adapterVars, workerVars, capVars, appVars, pageVars, overlayVars>>

StoreRemoveField(id, pageNumber) ==
    /\ fields' = FieldsWithout(fields, id, pageNumber)
    /\ event' = [op |-> "removeField", arg |-> StoreBefore(id, pageNumber)]
    /\ UNCHANGED <<colorIndex, nextId, clearedAt>>
    /\ UNCHANGED <<adapterVars, workerVars, capVars, appVars, pageVars, overlayVars>>

StoreUpdateLabel(id, pageNumber, label) ==
    /\ fields' = FieldsRelabelled(fields, id, pageNumber, label)
    /\ event' = [op |-> "updateLabel", arg |-> StoreBefore(id, pageNumber)]
    /\ UNCHANGED <<colorIndex, nextId, clearedAt>>
    /\ UNCHANGED <<adapterVars, workerVars, capVars, appVars, pageVars, overlayVars>>

StoreClearPage(pageNumber) ==
    /\ fields' = FieldsCleared(fields, pageNumber)
    /\ event' = Other
    /\ UNCHANGED <<colorIndex, nextId, clearedAt>>
    /\ UNCHANGED <<adapterVars, workerVars, capVars, appVars, pageVars, overlayVars>>

StoreClearAll ==
    /\ fields' = <<>>
    /\ colorIndex' = 0
    /\ clearedAt' = nextId
    /\ event' = Other
    /\ UNCHANGED nextId
    /\ UNCHANGED <<adapterVars, workerVars, capVars, appVars, pageVars, overlayVars>>

\* Fields held at once and fields created in one run of the store
MaxLive == 3

MaxCreated == 3

\* The same for runs long enough to go round the palette
CycleLive == 1

CycleCreated == 11

\* Ids a caller can name: the id of every field the store holds and one
\* that no field has
KnownIds == {f.id : f \in HeldFields(fields)} \cup {-1}

InitStore ==
    /\ InitOverlayState
    /\ InitStoreEmpty
    /\ InitPageState
    /\ InitAdapterIdle
    /\ InitWorkerState
    /\ pdfFile = ScannedDoc
    /\ ocrResults = [p \in Pages |-> Some(PageResult(p))]
    /\ capWords = <<>>
    /\ capBox = BBox(0, 0, 0, 0)
    /\ captured = <<>>
    /\ capResult = NoResult
    /\ capDone = FALSE

StoreCalls(maxLive, maxCreated) ==
    \/ \E p \in Pages : StoreAddField(p, maxLive, maxCreated)
    \/ \E p \in Pages : StoreAddFieldRect(p, maxLive, maxCreated)
    \/ \E id \in KnownIds, p \in Pages : StoreRemoveField(id, p)
    \/ \E id \in KnownIds, p \in Pages : StoreUpdateLabel(id, p, NewLabel)
    \/ \E p \in Pages : StoreClearPage(p)
    \/ StoreClearAll

NextStore == StoreCalls(MaxLive, MaxCreated)

SpecStore == InitStore /\ [][NextStore]_vars

NextStoreCycle == StoreCalls(CycleLive, CycleCreated)

SpecStoreCycle == InitStore /\ [][NextStoreCycle]_vars

---------------------------------------------------------------------------
(* Specification of the overlay on a loaded document *)

\* What the user can leave in the sidebar's label input
RenameInputs == {<<>>, <<" ">>, <<"X", " ">>}

\* Mutant of RenameApplies: the test of editingLabel.trim() left out
RenameAppliesAlways(editingLabel) == TRUE

\* if (editingLabel.trim())
RenameApplies(editingLabel) == Trim(editingLabel) # <<>>

\* The sidebar's saveLabel(field.id), on blur or Enter of the label input of
\* a field of the current page; editingLabel is what the input holds
SaveLabel(fieldId, editingLabel) ==
    /\ \E i \in 1..Len(GetPageFields(fields, currentPage)) :
        GetPageFields(fields, currentPage)[i].id = fieldId
    /\ IF RenameApplies(editingLabel)
       THEN fields' = FieldsRelabelled(fields, fieldId, currentPage,
                                       Trim(editingLabel))
       ELSE fields' = fields
    /\ event' = [op |-> "saveLabel",
                 arg |-> Some([id |-> fieldId, input |-> editingLabel])]
    /\ OverlayRerender(showBBoxes, ocrResults, currentPage, fields')
    /\ UNCHANGED <<colorIndex, nextId, clearedAt>>
    /\ UNCHANGED <<adapterVars, workerVars, capVars, pageVars, appVars>>

InitOverlay ==
    /\ InitOverlayState
    /\ InitStoreEmpty
    /\ InitPageState
    /\ InitAdapterIdle
    /\ InitWorkerState
    /\ pdfFile = ScannedDoc
    /\ ocrResults \in OcrConfigs
    /\ capWords = <<>>
    /\ capBox = BBox(0, 0, 0, 0)
    /\ captured = <<>>
    /\ capResult = NoResult
    /\ capDone = FALSE

NextOverlay ==
    \/ \E i \in 1..Len(Words), shiftKey \in BOOLEAN :
        HandleWordClick(Words[i], shiftKey)
    \/ \E pt \in Points : HandleMouseDown(pt)
    \/ \E pt \in Points : HandleMouseMove(pt)
    \/ \E pt \in Points : HandleMouseUp(pt)
    \/ OpenPopupForSelection
    \/ ClearSelection
    \/ \E v \in LabelInputs : SetLabelInput(v)
    \/ HandleSaveField
    \/ CancelPopup
    \/ \E p \in Pages : \E i \in 1..Len(GetPageFields(fields, p)) :
        RemoveField(GetPageFields(fields, p)[i].id)
    \/ SetMode("field")
    \/ PrevPage
    \/ NextPage
    \/ ToggleBBoxes

SpecOverlay == InitOverlay /\ [][NextOverlay]_vars

\* Where the pointer goes in a session of clicks: two corners of a rectangle
\* and a point over a word box of either page
ClickPoints ==
    {[x |-> 0, y |-> 0], [x |-> 500, y |-> 100], [x |-> 100, y |-> 50]}

\* A document whose pages all have a text result, page 1 on display
InitClicks ==
    /\ InitOverlay
    /\ ocrResults = [p \in Pages |-> Some(PageResult(p))]

\* The overlay and the sidebar's field list while one page is on display
NextClicks ==
    \/ \E i \in 1..Len(Words), shiftKey \in BOOLEAN :
        HandleWordClick(Words[i], shiftKey)
    \/ \E pt \in ClickPoints : HandleMouseDown(pt)
    \/ \E pt \in ClickPoints : HandleMouseMove(pt)
    \/ \E pt \in ClickPoints : HandleMouseUp(pt)
    \/ OpenPopupForSelection
    \/ ClearSelection
    \/ \E v \in LabelInputs : SetLabelInput(v)
    \/ HandleSaveField
    \/ CancelPopup
    \/ \E p \in Pages : \E i \in 1..Len(GetPageFields(fields, p)) :
        RemoveField(GetPageFields(fields, p)[i].id)
    \/ \E p \in Pages : \E i \in 1..Len(GetPageFields(fields, p)) :
        \E v \in RenameInputs : SaveLabel(GetPageFields(fields, p)[i].id, v)
    \/ SetMode("field")
    \/ ToggleBBoxes

SpecClicks == InitClicks /\ [][NextClicks]_vars

---------------------------------------------------------------------------
(* Opening another file after fields were committed on the overlay *)

NextReopen ==
    \/ NextClicks
    \/ \E file \in OpenableDocs : HandleOpenFile(file)
    \/ HandleDocumentLoad

SpecReopen == InitClicks /\ [][NextReopen]_vars

\* The values of the overlay's `mode` prop (AnnotationMode) it is told apart by
AnnotationModes == {"none", "highlight", "field"}

\* The overlay under every change of its `mode` prop: setMode with any
\* AnnotationMode, not only those the toolbar's MODES offers
NextOverlayModes ==
    \/ NextOverlay
    \/ \E m \in AnnotationModes : SetMode(m)

SpecOverlayModes == InitOverlay /\ [][NextOverlayModes]_vars

---------------------------------------------------------------------------
(* Inputs of captureTextInBox *)

HELLO == <<"H", "E", "L", "L", "O">>

\* Word boxes and texts the inputs are built from
CapPool ==
    { [text |-> HELLO,              bbox |-> BBox(0, 0, 1000, 100)],
      [text |-> <<"A", "B">>,       bbox |-> BBox(100, 10, 300, 110)],
      [text |-> <<"C", "D">>,       bbox |-> BBox(400, 5, 600, 105)],
      [text |-> <<"E", "F">>,       bbox |-> BBox(700, 0, 900, 100)],
      [text |-> <<"A", " ", "B">>,  bbox |-> BBox(400, 0, 700, 100)],
      [text |-> <<"Z">>,            bbox |-> BBox(500, 0, 500, 100)],
      [text |-> <<>>,               bbox |-> BBox(100, 0, 300, 100)] }

CapXs == {0, 200, 500, 600, 1000}

CapYs == {<<0, 100>>, <<0, 50>>}

CapBoxes ==
    {BBox(xs[1], y[1], xs[2], y[2]) :
        xs \in {p \in CapXs \X CapXs : p[1] <= p[2]}, y \in CapYs}

\* Word lists of page 1 with ids 1-0, 1-1, ... in production order
CapWordLists ==
    UNION {{[i \in 1..n |-> OCRWord(<<1, i - 1>>, f[i].text, f[i].bbox)] :
               f \in [1..n -> CapPool]} : n \in 0..MaxWords}

---------------------------------------------------------------------------
(* Specification of ocrService's shared worker under concurrent initOCR calls *)

\* Mutant of ReusesPromise: the test of initPromise left out
ReusesPromiseNever == FALSE

\* if (initPromise) return initPromise
ReusesPromise == initPromise # None

\* initOCR() up to the point where it returns its promise. A promise is named
\* by the serial number of the createWorker() call it waits for, which is also
\* the name of the Worker that call creates
InitOCR(c) ==
    /\ callers[c].at = "idle"
    /\ IF workerInstance # None
       THEN /\ callers' = [callers EXCEPT ![c] =
                              [at |-> "awaiting", on |-> "worker",
                               of |-> workerInstance[1]]]
            /\ UNCHANGED <<initPromise, creations>>
       ELSE IF ReusesPromise
       THEN /\ callers' = [callers EXCEPT ![c] =
                              [at |-> "awaiting", on |-> "promise",
                               of |-> initPromise[1]]]
            /\ UNCHANGED <<initPromise, creations>>
       ELSE /\ creations' = Append(creations, "pending")
            /\ initPromise' = Some(Len(creations) + 1)
            /\ callers' = [callers EXCEPT ![c] =
                              [at |-> "awaiting", on |-> "promise",
                               of |-> Len(creations) + 1]]
    /\ lastIssued' = "initOCR"
    /\ UNCHANGED <<workerInstance, terminations, terminated>>
    /\ UNCHANGED <<capVars, appVars, pageVars, overlayVars, storeVars, event,
                   adapterVars>>

\* createWorker() number k settles: resolved, the body of initPromise goes on
\* to `workerInstance = worker`; rejected, initPromise rejects
CreateWorkerSettles(k, rejected) ==
    /\ creations[k] = "pending"
    /\ creations' = [creations EXCEPT ![k] =
                         IF rejected THEN "rejected" ELSE "fulfilled"]
    /\ workerInstance' = IF rejected THEN workerInstance ELSE Some(k)
    /\ UNCHANGED <<initPromise, callers, terminations, terminated, lastIssued>>
    /\ UNCHANGED <<capVars, appVars, pageVars, overlayVars, storeVars, event,
                   adapterVars>>

\* The caller's await of initOCR() goes on: with the worker, or by throwing
InitOCRSettles(c) ==
    /\ callers[c].at = "awaiting"
    /\ \/ /\ callers[c].on = "worker"
          /\ callers' = [callers EXCEPT ![c] =
                            [at |-> "returned", on |-> "worker",
                             of |-> callers[c].of]]
       \/ /\ callers[c].on = "promise"
          /\ creations[callers[c].of] = "fulfilled"
          /\ callers' = [callers EXCEPT ![c] =
                            [at |-> "returned", on |-> "promise",
                             of |-> callers[c].of]]
       \/ /\ callers[c].on = "promise"
          /\ creations[callers[c].of] = "rejected"
          /\ callers' = [callers EXCEPT ![c] =
                            [at |-> "thrown", on |-> "promise",
                             of |-> callers[c].of]]
    /\ UNCHANGED <<workerInstance, initPromise, creations, terminations,
                   terminated, lastIssued>>
    /\ UNCHANGED <<capVars, appVars, pageVars, overlayVars, storeVars, event,
                   adapterVars>>

InitWorker ==
    /\ InitOverlayState
    /\ InitStoreEmpty
    /\ InitPageState
    /\ InitAdapterIdle
    /\ InitWorkerState
    /\ pdfFile = ScannedDoc
    /\ ocrResults = [p \in Pages |-> None]
    /\ capWords = <<>>
    /\ capBox = BBox(0, 0, 0, 0)
    /\ captured = <<>>
    /\ capResult = NoResult
    /\ capDone = FALSE

NextWorker ==
    \/ \E c \in Callers : InitOCR(c)
    \/ \E k \in 1..Len(creations), rejected \in BOOLEAN :
        CreateWorkerSettles(k, rejected)
    \/ \E c \in Callers : InitOCRSettles(c)

SpecWorker == InitWorker /\ [][NextWorker]_vars

---------------------------------------------------------------------------
(* Specification of the worker's life: initOCR and terminateOCR interleaved *)

\* terminateOCR calls in one run
MaxTerminations == 2

\* if (workerInstance): the worker terminateOCR acts on, None when the test
\* fails and the call returns at once
TerminateTarget == workerInstance

\* terminateOCR() up to its await: nothing when there is no workerInstance,
\* otherwise workerInstance.terminate() is started and awaited
TerminateOCR ==
    /\ BagCardinality(terminations) < MaxTerminations
    /\ terminations' =
         IF TerminateTarget = None THEN terminations
         ELSE terminations (+) SetToBag({TerminateTarget[1]})
    /\ lastIssued' = "terminateOCR"
    /\ UNCHANGED <<workerInstance, initPromise, creations, callers, terminated>>
    /\ UNCHANGED <<capVars, appVars, pageVars, overlayVars, storeVars, event,
                   adapterVars>>

\* terminateOCR() after its await: terminate() of worker k has resolved,
\* then both variables are reset
TerminateSettles(k) ==
    /\ BagIn(k, terminations)
    /\ terminations' = terminations (-) SetToBag({k})
    /\ terminated' = terminated \cup {k}
    /\ workerInstance' = None
    /\ initPromise' = None
    /\ UNCHANGED <<creations, callers, lastIssued>>
    /\ UNCHANGED <<capVars, appVars, pageVars, overlayVars, storeVars, event,
                   adapterVars>>

NextWorkerLife ==
    \/ \E c \in Callers : InitOCR(c)
    \/ \E k \in 1..Len(creations), rejected \in BOOLEAN :
        CreateWorkerSettles(k, rejected)
    \/ \E c \in Callers : InitOCRSettles(c)
    \/ TerminateOCR
    \/ \E k \in BagToSet(terminations) : TerminateSettles(k)

SpecWorkerLife == InitWorker /\ [][NextWorkerLife]_vars

---------------------------------------------------------------------------
(* Specification of the two adapters as functions of what they are given *)

\* A text item at the page's origin
TextZero == TextItem(<<"Z">>, 0, 0, 50, 20)

AdapterItemPool == ItemPool \cup {TextZero}

\* View boxes: a page of 500 x 500, one of no width, one of no height and
\* one whose width is negative
AdapterViews ==
    {<<0, 0, 500, 500>>, <<0, 0, 0, 500>>, <<0, 0, 500, 0>>, <<500, 0, 0, 500>>}

\* Words as worker.recognize reports them, boxes in canvas pixels
RawPool ==
    {[text |-> <<"A">>, bbox |-> BBox(0, 40, 400, 160)],
     [text |-> <<" ">>, bbox |-> BBox(500, 40, 520, 160)],
     [text |-> <<" ", "B">>, bbox |-> BBox(600, 40, 1000, 160)]}

\* canvas.width and canvas.height
CanvasSizes == {CanvasWidth, 0}

ExtractCalls ==
    {[fn |-> "extractPageText", page |-> PdfPageProxy(view, items),
      pageNumber |-> p] :
        view \in AdapterViews, p \in Pages,
        items \in UNION {[1..n -> AdapterItemPool] : n \in 0..MaxItems}}

RecognizeCalls ==
    {[fn |-> "recognizePage", data |-> data, pageNumber |-> p,
      cw |-> cw, ch |-> ch] :
        cw \in CanvasSizes, ch \in CanvasSizes, p \in Pages,
        data \in UNION {[1..n -> RawPool] : n \in 0..MaxItems}}

InitAdapters ==
    /\ InitOverlayState
    /\ InitStoreEmpty
    /\ InitPageState
    /\ InitWorkerState
    /\ pdfFile = ScannedDoc
    /\ ocrResults = [p \in Pages |-> None]
    /\ capWords = <<>>
    /\ capBox = BBox(0, 0, 0, 0)
    /\ captured = <<>>
    /\ capResult = NoResult
    /\ capDone = FALSE
    /\ adapterCall \in {Some(c) : c \in ExtractCalls \cup RecognizeCalls}
    /\ adapterResult = None

\* extractPageText returns; handlePageProxy stores a result as it is
ExtractPageTextReturns ==
    /\ adapterResult = None
    /\ adapterCall[1].fn = "extractPageText"
    /\ LET result == extractPageText(adapterCall[1].page,
                                     adapterCall[1].pageNumber)
       IN  adapterResult' =
               Some([result |-> result,
                     stored |-> IF result = None THEN <<>>
                                ELSE result[1].words])
    /\ UNCHANGED adapterCall
    /\ UNCHANGED <<capVars, appVars, pageVars, overlayVars, storeVars, event,
                   workerVars>>

\* recognizePage returns; runOCR stores the result with its boxes divided by
\* the canvas size
RecognizePageReturns ==
    /\ adapterResult = None
    /\ adapterCall[1].fn = "recognizePage"
    /\ LET result == recognizePage(adapterCall[1].data,
                                   adapterCall[1].pageNumber)
       IN  adapterResult' =
               Some([result |-> Some(result),
                     stored |-> Normalized(result, adapterCall[1].cw,
                                           adapterCall[1].ch).words])
    /\ UNCHANGED adapterCall
    /\ UNCHANGED <<capVars, appVars, pageVars, overlayVars, storeVars, event,
                   workerVars>>

NextAdapters ==
    \/ ExtractPageTextReturns
    \/ RecognizePageReturns

SpecAdapters == InitAdapters /\ [][NextAdapters]_vars

---------------------------------------------------------------------------
(* Specification of the pure function captureTextInBox *)

InitCapture ==
    /\ InitOverlayState
    /\ InitStoreEmpty
    /\ InitPageState
    /\ InitAdapterIdle
    /\ InitWorkerState
    /\ pdfFile = ScannedDoc
    /\ ocrResults = [p \in Pages |-> None]
    /\ capWords \in CapWordLists
    /\ capBox \in CapBoxes
    /\ captured = <<>>
    /\ capResult = NoResult
    /\ capDone = FALSE

\* One call captureTextInBox(capWords, capBox)
CaptureTextInBox ==
    /\ ~capDone
    /\ \E sorted \in CaptureOutcomes(capWords, capBox) :
        /\ captured' = sorted
        /\ capResult' = CaptureReturn(sorted)
    /\ capDone' = TRUE
    /\ UNCHANGED <<capWords, capBox>>
    /\ UNCHANGED <<appVars, pageVars, overlayVars, storeVars, event>>
    /\ UNCHANGED <<adapterVars, workerVars>>

NextCapture == CaptureTextInBox

SpecCapture == InitCapture /\ [][NextCapture]_vars

---------------------------------------------------------------------------
(* Properties of captureTextInBox (checked under SpecCapture) *)

\* The word's vertical midpoint lies in [box.y0, box.y1]
MidpointInside(w, box) ==
    /\ w.bbox.y0 + w.bbox.y1 >= 2 * box.y0
    /\ w.bbox.y0 + w.bbox.y1 <= 2 * box.y1

\* The word's box is horizontally contained in the region
HContained(w, box) == w.bbox.x0 >= box.x0 /\ w.bbox.x1 <= box.x1

\* The horizontal intersection of word and region is non-empty
HIntersects(w, box) ==
    (IF w.bbox.x0 >= box.x0 THEN w.bbox.x0 ELSE box.x0)
        < (IF w.bbox.x1 <= box.x1 THEN w.bbox.x1 ELSE box.x1)

\* The result holds an entry for word w carrying exactly the text t
ContributesText(w, t) ==
    \E k \in 1..Len(captured) :
        /\ captured[k].id = w.id
        /\ captured[k].text = t
        /\ capResult.wordIds[k] = w.id
        /\ Len(capResult.wordIds) = Len(captured)

\* The result holds nothing of word w
ContributesNothing(w) ==
    /\ \A k \in 1..Len(capResult.wordIds) : capResult.wordIds[k] # w.id
    /\ \A k \in 1..Len(captured) : captured[k].id # w.id

\* C1 as stated: every word with its midpoint in the region's rows, its box
\* horizontally contained in the region and a non-empty text contributes its
\* whole text, and its id is in wordIds.
C1_ContainedWordKept_Original ==
    capDone =>
        \A i \in 1..Len(capWords) :
            (/\ MidpointInside(capWords[i], capBox)
             /\ HContained(capWords[i], capBox)
             /\ capWords[i].text # <<>>)
            => ContributesText(capWords[i], capWords[i].text)

\* C1 amended: the same for every such word whose box has a positive width
\* (x0 < x1); a zero-width word has an empty horizontal intersection with any
\* region and is skipped before the containment test.
C1_ContainedWordKept ==
    capDone =>
        \A i \in 1..Len(capWords) :
            (/\ MidpointInside(capWords[i], capBox)
             /\ HContained(capWords[i], capBox)
             /\ capWords[i].bbox.x0 < capWords[i].bbox.x1
             /\ capWords[i].text # <<>>)
            => ContributesText(capWords[i], capWords[i].text)

\* C1 witness: a contained word of positive width was captured whole, next
\* to a partially covered word that was sliced.
C1_Witness ==
    /\ capDone
    /\ \E i, j \in 1..Len(capWords) :
        /\ MidpointInside(capWords[i], capBox)
        /\ HContained(capWords[i], capBox)
        /\ capWords[i].bbox.x0 < capWords[i].bbox.x1
        /\ capWords[i].bbox.y1 > capBox.y1
        /\ ContributesText(capWords[i], capWords[i].text)
        /\ ~HContained(capWords[j], capBox)
        /\ \E k \in 1..Len(captured) :
            captured[k].id = capWords[j].id /\ captured[k].text # capWords[j].text

\* C2: a word with no horizontal overlap with the region, or whose vertical
\* midpoint is outside [box.y0, box.y1], is not in wordIds and contributes
\* nothing, even when its box vertically overlaps the region.
C2_OutsideWordExcluded ==
    capDone =>
        \A i \in 1..Len(capWords) :
            (~HIntersects(capWords[i], capBox)
                \/ ~MidpointInside(capWords[i], capBox))
            => ContributesNothing(capWords[i])

\* C2 witness: a word whose box grazes the region vertically (it overlaps the
\* region's rows but its midpoint is below them) and intersects it
\* horizontally was excluded, and another word was captured.
C2_Witness ==
    /\ capDone
    /\ capResult.wordIds # <<>>
    /\ \E i \in 1..Len(capWords) :
        /\ capWords[i].bbox.y0 < capBox.y1
        /\ capWords[i].bbox.y1 > capBox.y0
        /\ ~MidpointInside(capWords[i], capBox)
        /\ HIntersects(capWords[i], capBox)
        /\ capWords[i].text # <<>>
        /\ ContributesNothing(capWords[i])

\* clamp(d / width, 0, 1) as a numerator over width
ClampRatioNum(d, width) ==
    IF d < 0 THEN 0 ELSE IF d > width THEN width ELSE d

\* round-half-up of num / den by quotient and remainder
RoundHalfUp(num, den) ==
    IF 2 * (num % den) >= den THEN (num \div den) + 1 ELSE num \div den

\* The text C3 states for a partially covered word
SlicedText(w, box) ==
    LET width == w.bbox.x1 - w.bbox.x0
        n == Len(w.text)
        startChar == RoundHalfUp(ClampRatioNum(box.x0 - w.bbox.x0, width) * n, width)
        endChar == RoundHalfUp(ClampRatioNum(box.x1 - w.bbox.x0, width) * n, width)
        cut == IF startChar >= endChar THEN <<>>
               ELSE [k \in 1..(endChar - startChar) |-> w.text[startChar + k]]
    IN  Trim(cut)

\* C3: a partially covered word (row test passed, non-empty horizontal
\* intersection, not horizontally contained) contributes
\* text.slice(round(startRatio*n), round(endRatio*n)) trimmed, with both
\* ratios clamped to [0,1] and round-half-up (nothing when that is empty);
\* "HELLO" at [0,0,1,0.1] under the region [0,0,0.5,0.1] yields "HEL".
C3_PartialWordSliced ==
    capDone =>
        /\ \A i \in 1..Len(capWords) :
            (/\ MidpointInside(capWords[i], capBox)
             /\ HIntersects(capWords[i], capBox)
             /\ ~HContained(capWords[i], capBox)
             /\ capWords[i].text # <<>>)
            => IF SlicedText(capWords[i], capBox) # <<>>
               THEN ContributesText(capWords[i], SlicedText(capWords[i], capBox))
               ELSE ContributesNothing(capWords[i])
        /\ (/\ Len(capWords) = 1
            /\ capWords[1].text = <<"H", "E", "L", "L", "O">>
            /\ capWords[1].bbox = [x0 |-> 0, y0 |-> 0, x1 |-> 1000, y1 |-> 100]
            /\ capBox = [x0 |-> 0, y0 |-> 0, x1 |-> 500, y1 |-> 100])
           => capResult.text = <<"H", "E", "L">>

\* C3 witness: the "HELLO" example has been captured.
C3_Witness ==
    /\ capDone
    /\ Len(capWords) = 1
    /\ capWords[1].text = <<"H", "E", "L", "L", "O">>
    /\ capWords[1].bbox = [x0 |-> 0, y0 |-> 0, x1 |-> 1000, y1 |-> 100]
    /\ capBox = [x0 |-> 0, y0 |-> 0, x1 |-> 500, y1 |-> 100]
    /\ capResult.wordIds = <<capWords[1].id>>

\* C4 as stated: any two captured words whose tops differ by at most ROW_TOL
\* appear in the output in the order of their horizontal-overlap starts,
\* whatever the input order and whatever else is captured.
C4_SameRowLeftToRight ==
    capDone =>
        \A i, j \in 1..Len(captured) :
            (/\ Abs(captured[i].y0 - captured[j].y0) <= 8
             /\ captured[i].x0 < captured[j].x0)
            => i < j

\* C5: text is "" and wordIds is empty when the word list is empty or no word
\* passes both the row test and the horizontal-overlap test; and text is
\* empty exactly when wordIds is empty.
C5_EmptyCapture ==
    capDone =>
        /\ (\A i \in 1..Len(capWords) :
                ~(MidpointInside(capWords[i], capBox)
                    /\ HIntersects(capWords[i], capBox)))
           => (capResult.text = <<>> /\ capResult.wordIds = <<>>)
        /\ (capResult.text = <<>>) <=> (capResult.wordIds = <<>>)

\* C5 witness: a word with text passed both tests, its slice trimmed to the
\* empty string, and the result is empty.
C5_Witness ==
    /\ capDone
    /\ capResult.text = <<>>
    /\ capResult.wordIds = <<>>
    /\ \E i \in 1..Len(capWords) :
        /\ MidpointInside(capWords[i], capBox)
        /\ HIntersects(capWords[i], capBox)
        /\ capWords[i].text # <<>>

---------------------------------------------------------------------------
(* Properties of the overlay and the store (checked under SpecOverlay) *)

\* The overlay's transient state is that of Idle
Idle ==
    /\ selectedIds = <<>>
    /\ dragState = None
    /\ pendingRect = None
    /\ ~labelPopup

\* The field the store created last
LastField ==
    LET fs == GetPageFields(fields, currentPage) IN fs[Len(fs)]

\* handleSaveField has just appended exactly one field to the current page
AppendedOne ==
    /\ GetPageFields(fields, currentPage) # <<>>
    /\ GetPageFields(fields, currentPage) = Append(event.arg[1].before, LastField)
    /\ LastField.pageNumber = currentPage
    /\ LastField.label # <<>>

\* C6: after the release of a drag whose width or height is below 0.01 (10
\* units) no rectangle is pending, no label prompt is open and the overlay is
\* Idle.
C6_TinyDragDiscarded ==
    (/\ event.op = "mouseUp"
     /\ (event.arg[1].x1 - event.arg[1].x0 < 10
            \/ event.arg[1].y1 - event.arg[1].y0 < 10))
    => Idle

\* C6 witness: a drag that is wide enough but not high enough was released
\* and discarded.
C6_Witness ==
    /\ event.op = "mouseUp"
    /\ event.arg[1].x1 - event.arg[1].x0 >= 10
    /\ event.arg[1].y1 - event.arg[1].y0 < 10
    /\ Idle

\* C7 as stated: the word selection (selectedIds non-empty) and the draw path
\* (dragState or pendingRect present) are never active at the same time.
C7_SelectionXorDraw ==
    ~(selectedIds # <<>> /\ (dragState # None \/ pendingRect # None))

\* The texts of the words with the given ids, in the order of the page's
\* word list, and the union of their boxes
WordsWithIds(ids) ==
    SelectSeq(Words, LAMBDA w : \E k \in 1..Len(ids) : ids[k] = w.id)

\* C8 as stated: committing a word selection appends one field to the current
\* page whose value is the selected words' texts joined by single spaces in
\* word-list order, whose wordIds are exactly the selected ids and whose bbox
\* is the union of the selected words' boxes.
C8_WordSelectionCommit ==
    event.op = "saveWords" =>
        LET sel == event.arg[1].selected
            ws == WordsWithIds(sel)
        IN  /\ AppendedOne
            /\ LastField.value = JoinSpace([i \in 1..Len(ws) |-> ws[i].text])
            /\ Range(LastField.wordIds) = Range(sel)
            /\ Len(LastField.wordIds) = Len(sel)
            /\ \A i \in 1..Len(ws) :
                /\ LastField.bbox.x0 <= ws[i].bbox.x0
                /\ LastField.bbox.y0 <= ws[i].bbox.y0
                /\ LastField.bbox.x1 >= ws[i].bbox.x1
                /\ LastField.bbox.y1 >= ws[i].bbox.y1
            /\ \E i \in 1..Len(ws) : LastField.bbox.x0 = ws[i].bbox.x0
            /\ \E i \in 1..Len(ws) : LastField.bbox.y0 = ws[i].bbox.y0
            /\ \E i \in 1..Len(ws) : LastField.bbox.x1 = ws[i].bbox.x1
            /\ \E i \in 1..Len(ws) : LastField.bbox.y1 = ws[i].bbox.y1

\* C9: committing a drawn rectangle appends one field whose bbox is the drawn
\* rectangle, whose value is the text captureTextInBox returned for it at
\* release time and whose wordIds are the ids that capture returned.
C9_RectCommit ==
    event.op = "saveRect" =>
        LET cap == event.arg[1].capture
        IN  /\ AppendedOne
            /\ LastField.bbox = cap.bbox
            /\ LastField.value = cap.text
            /\ Range(LastField.wordIds) = Range(cap.wordIds)
            /\ Len(LastField.wordIds) = Len(cap.wordIds)

\* C9 witness: a rectangle that captured two words, one of them sliced, was
\* committed; its bbox is not the union of the captured words' boxes.
C9_Witness ==
    /\ event.op = "saveRect"
    /\ Len(LastField.wordIds) = 2
    /\ LastField.value = <<"1", "2", "3", " ", "I", "n", "v", "o">>
    /\ LastField.bbox = [x0 |-> 0, y0 |-> 0, x1 |-> 500, y1 |-> 100]

\* C10: after a commit through either path the overlay is Idle and the label
\* input is empty.
C10_CommitClearsTransient ==
    event.op \in {"saveRect", "saveWords"} => (Idle /\ labelInput = <<>>)

\* C10 witness: a commit of each kind can be the last thing that happened;
\* this is the word path, after the label was typed.
C10_Witness ==
    /\ event.op = "saveWords"
    /\ Len(LastField.wordIds) = 2
    /\ LastField.label = InvoiceNumber
    /\ Idle

\* C11: after cancelPopup the selection is empty, no rectangle is pending,
\* the prompt is closed, and the store's fields and color counter are what
\* they were when the handler was entered.
C11_CancelClears ==
    event.op = "cancel" =>
        /\ selectedIds = <<>>
        /\ pendingRect = None
        /\ ~labelPopup
        /\ fields = event.arg[1].entered.fields
        /\ colorIndex = event.arg[1].entered.colorIndex

\* C11 witness: the prompt of a drawn rectangle was cancelled while the
\* store held a field.
C11_Witness ==
    /\ event.op = "cancel"
    /\ event.arg[1].entered.pendingRect # None
    /\ event.arg[1].entered.fields # <<>>
    /\ fields = event.arg[1].entered.fields
    /\ pendingRect = None

IsBlankLabel(str) == \A j \in 1..Len(str) : str[j] = " "

\* C13: a submit of the prompt with an empty or whitespace-only label adds
\* no field, leaves the color counter, and leaves the selection, the pending
\* capture, the prompt and its input as they were.
C13_EmptyLabelNoOp ==
    (/\ event.op \in {"saveEmpty", "saveRect", "saveWords", "saveNone"}
     /\ IsBlankLabel(event.arg[1].input))
    => (/\ event.op = "saveEmpty"
        /\ OverlayBefore = event.arg[1].entered)

\* C13 witness: a single space was submitted as the label of a drawn
\* rectangle; the rectangle is still pending and the prompt still open.
C13_Witness ==
    /\ event.op = "saveEmpty"
    /\ event.arg[1].input = <<" ">>
    /\ pendingRect # None
    /\ labelPopup
    /\ labelInput = <<" ">>
    /\ fields = <<>>

---------------------------------------------------------------------------
(* Properties of the page text results (checked under SpecPages) *)

\* A string with a character that trim() keeps
HasNonBlank(str) == \E j \in 1..Len(str) : str[j] # " "

\* Every text item of the page trims to the empty string (or there is none)
AllBlank(page) ==
    \A i \in 1..Len(page.items) :
        page.items[i].kind = "text" => ~HasNonBlank(page.items[i].str)

\* An extractPageText call has just resolved
ExtractionResolved == event.op = "extracted" /\ ~event.arg[1].rejected

\* A recognizePage call has just resolved
RecognitionResolved == event.op = "recognized" /\ ~event.arg[1].rejected

\* C17: extractPageText returns null for a page whose text items all trim
\* to the empty string (or that has none) and a result when some item has
\* non-blank text; for an all-blank page handlePageProxy leaves the page's
\* slot and digitizedPages as they were.
C17_BlankPageIsAbsent ==
    ExtractionResolved =>
        LET e == event.arg[1]
        IN  /\ AllBlank(e.page) =>
                /\ e.result = None
                /\ ocrResults = e.before
                /\ digitizedPages = e.digitized
            /\ ~AllBlank(e.page) =>
                /\ e.result # None
                /\ ocrResults[e.pageNumber] = e.result
                /\ e.pageNumber \in digitizedPages

\* C17 witness: the extraction of a page holding a whitespace-only text item
\* and a marked-content item resolved to null.
C17_Witness ==
    /\ ExtractionResolved
    /\ event.arg[1].page.items = <<MarkedContent, Blank>>
    /\ event.arg[1].result = None
    /\ ocrResults[event.arg[1].pageNumber] = None
    /\ event.arg[1].pageNumber \notin digitizedPages

\* C18 as stated: a page in digitizedPages holds the embedded result of its
\* extraction in its slot, and no recognition result is written to the slot
\* of a page that is in digitizedPages.
C18_EmbeddedPreemptsOCR ==
    /\ \A p \in digitizedPages :
        ocrResults[p] = extractPageText(pdfFile[p], p)
    /\ RecognitionResolved => event.arg[1].pageNumber \notin event.arg[1].digitized

\* C19: a recognition result is written to the slot of the page that was
\* current when runOCR was invoked and to no other slot, whatever page is on
\* display when the call resolves.
C19_KeyedByInvocationPage ==
    RecognitionResolved =>
        LET e == event.arg[1]
        IN  /\ ocrResults[e.pageNumber] = Some(e.result)
            /\ e.result.pageNumber = e.pageNumber
            /\ \A p \in Pages \ {e.pageNumber} : ocrResults[p] = e.before[p]

\* C19 witness: the user went from page 1 to page 2 while the recognition of
\* page 1 was pending; the result is in slot 1 and slot 2 is as it was.
C19_Witness ==
    /\ RecognitionResolved
    /\ event.arg[1].pageNumber = 1
    /\ event.arg[1].shown = 2
    /\ currentPage = 2
    /\ event.arg[1].before[1] = None
    /\ ocrResults[1] # None
    /\ ocrResults[2] = event.arg[1].before[2]

\* C20 as stated: when an extraction or a recognition resolves with a result
\* for a page whose slot already holds one, the slot keeps the result it had.
C20_NoOverwrite ==
    ((ExtractionResolved /\ event.arg[1].result # None) \/ RecognitionResolved) =>
        (event.arg[1].before[event.arg[1].pageNumber] # None =>
            ocrResults[event.arg[1].pageNumber]
                = event.arg[1].before[event.arg[1].pageNumber])

---------------------------------------------------------------------------
(* Properties of the field store (checked under SpecStore and SpecStoreCycle) *)

\* Every field the store holds
AllFields == HeldFields(fields)

\* The ids of the fields of a page
IdsOn(flds, p) == {GetPageFields(flds, p)[i].id : i \in 1..Len(GetPageFields(flds, p))}

C15_RemovedStaysOut ==
    /\ [](event.op = "removeField" =>
            LET e == event.arg[1]
            IN  /\ e.id \notin IdsOn(fields, e.pageNumber)
                /\ GetPageFields(fields, e.pageNumber)
                     = SelectSeq(GetPageFields(e.fields, e.pageNumber),
                                 LAMBDA f : f.id # e.id))
    /\ [][\A p \in Pages : \A id \in 0..(nextId - 1) :
            id \notin IdsOn(fields, p) => id \notin IdsOn(fields', p)]_vars

\* C15 witness: the middle one of three fields of page 1 was removed and
\* the two others are still there, in their order.
C15_Witness ==
    /\ event.op = "removeField"
    /\ event.arg[1].pageNumber = 1
    /\ Len(GetPageFields(event.arg[1].fields, 1)) = 3
    /\ GetPageFields(event.arg[1].fields, 1)[2].id = event.arg[1].id
    /\ Len(GetPageFields(fields, 1)) = 2
    /\ GetPageFields(fields, 1)[1] = GetPageFields(event.arg[1].fields, 1)[1]
    /\ GetPageFields(fields, 1)[2] = GetPageFields(event.arg[1].fields, 1)[3]

\* C16 as stated: after updateLabel(id, page, label) with an id that no field
\* of that page has, the fields state and the color counter are what they
\* were, also when the page had no entry.
C16_UpdateAbsentIsNoOp ==
    (/\ event.op = "updateLabel"
     /\ event.arg[1].id \notin IdsOn(event.arg[1].fields, event.arg[1].pageNumber))
    => (fields = event.arg[1].fields /\ colorIndex = event.arg[1].colorIndex)

---------------------------------------------------------------------------
(* Claims about a recognition call that settles (checked under SpecPages) *)

\* C21: when a recognition call fails, every page's result slot is what it
\* was before the call settled and the Field Store holds the same fields
C21_FailedRecognitionWritesNothing ==
    (event.op = "recognized" /\ event.arg[1].rejected) =>
        /\ ocrResults = event.arg[1].before
        /\ fields = event.arg[1].fields

\* A failed call of a page that already had a result, the store holding a
\* field
C21_Witness ==
    /\ event.op = "recognized"
    /\ event.arg[1].rejected
    /\ event.arg[1].before[event.arg[1].pageNumber] # None
    /\ HeldFields(fields) # {}
    /\ ocrResults = event.arg[1].before

\* C22: once a recognition call has settled, by success or by failure,
\* isOCRRunning is false, and on a page that is not digitized Run OCR can be
\* taken again
C22_SettledCallReenablesOCR ==
    event.op = "recognized" =>
        /\ ~isOCRRunning
        /\ currentPage \notin digitizedPages => ENABLED RunOCR

\* A call has failed and Run OCR is enabled on the page on display
C22_Witness ==
    /\ event.op = "recognized"
    /\ event.arg[1].rejected
    /\ currentPage \notin digitizedPages
    /\ ~isOCRRunning
    /\ RunOCREnabled

---------------------------------------------------------------------------
(* Claims about the two adapters (checked under SpecAdapters) *)

\* A coordinate of a normalized box is a number of [0, 1]
InUnit(v) == v \in 0..1000

\* C23: whatever the source extent, zero and negative included, every box
\* that reaches a stored Word has its four coordinates defined and in [0, 1]
C23_StoredBoxesInUnitSquare ==
    adapterResult # None =>
        \A i \in 1..Len(adapterResult[1].stored) :
            LET b == adapterResult[1].stored[i].bbox
            IN  InUnit(b.x0) /\ InUnit(b.y0) /\ InUnit(b.x1) /\ InUnit(b.y1)

\* The tokens of a call that survive: text items, or recognized words, whose
\* text has a character that is not a blank
Surviving(call) ==
    IF call.fn = "extractPageText"
    THEN LET kept == SelectSeq(call.page.items,
                               LAMBDA it : it.kind = "text" /\ HasNonBlank(it.str))
         IN  [i \in 1..Len(kept) |-> Trim(kept[i].str)]
    ELSE LET kept == SelectSeq(call.data, LAMBDA w : HasNonBlank(w.text))
         IN  [i \in 1..Len(kept) |-> kept[i].text]

\* The id of the word at position i of a call's result
IdAt(call, i) ==
    IF call.fn = "extractPageText"
    THEN <<call.pageNumber, "emb", i - 1>>
    ELSE <<call.pageNumber, i - 1>>

\* C26: the words of a result either adapter produces are the surviving
\* tokens in production order, each with a text that is not blank, with ids
\* numbered from 0 without a gap and pairwise distinct
C26_WordsNonBlankIdsConsecutive ==
    (adapterResult # None /\ adapterResult[1].result # None) =>
        LET ws == adapterResult[1].result[1].words
            call == adapterCall[1]
        IN  /\ Len(ws) = Len(Surviving(call))
            /\ \A i \in 1..Len(ws) :
                   /\ HasNonBlank(ws[i].text)
                   /\ ws[i].text = Surviving(call)[i]
                   /\ ws[i].id = IdAt(call, i)
            /\ \A i, j \in 1..Len(ws) : ws[i].id = ws[j].id => i = j

\* recognizePage was given a blank word first and a word after it, and the
\* one word of its result has index 0
C26_Witness ==
    /\ adapterResult # None
    /\ adapterCall[1].fn = "recognizePage"
    /\ Len(adapterCall[1].data) = 2
    /\ ~HasNonBlank(adapterCall[1].data[1].text)
    /\ Len(adapterResult[1].result[1].words) = 1
    /\ adapterResult[1].result[1].words[1].id = <<adapterCall[1].pageNumber, 0>>

---------------------------------------------------------------------------
(* Claims about the fields the overlay commits (checked under SpecOverlay) *)

\* C24: every field the store holds has a bbox with 0 <= x0 <= x1 <= 1 and
\* 0 <= y0 <= y1 <= 1
C24_FieldBBoxInUnitSquare ==
    \A f \in HeldFields(fields) :
        /\ 0 <= f.bbox.x0 /\ f.bbox.x0 <= f.bbox.x1 /\ f.bbox.x1 <= 1000
        /\ 0 <= f.bbox.y0 /\ f.bbox.y0 <= f.bbox.y1 /\ f.bbox.y1 <= 1000

\* The ids of the words of page p's text result
PageWordIds(p) ==
    {WordsOf(ocrResults, p)[i].id : i \in 1..Len(WordsOf(ocrResults, p))}

\* C29: every field stored under page number p names only words of page p's
\* text result
C29_FieldRefersToOwnPage ==
    \A f \in HeldFields(fields) : Range(f.wordIds) \subseteq PageWordIds(f.pageNumber)

\* C25: every field the store holds has a label that is not blank, and a
\* rename through the sidebar with an empty or blank label leaves every field
\* as it was
C25_LabelNeverBlank ==
    /\ [](\A f \in HeldFields(fields) : HasNonBlank(f.label))
    /\ [][(event'.op = "saveLabel" /\ ~HasNonBlank(event'.arg[1].input)) =>
            fields' = fields]_vars

\* The sidebar's input held a blank when it was left, and the field has the
\* label it was committed with
C25_Witness ==
    /\ event.op = "saveLabel"
    /\ event.arg[1].input = <<" ">>
    /\ \E f \in HeldFields(fields) :
        f.id = event.arg[1].id /\ f.label = InvoiceNumber

---------------------------------------------------------------------------
(* Claims about clicks and pointer-downs on the overlay (SpecOverlay) *)

\* C27: in field mode a shift-click toggles the clicked word and leaves the
\* other members alone, a plain click on the sole selected word empties the
\* selection and any other plain click selects the clicked word alone;
\* outside field mode a word click changes nothing
C27_WordClickSelection ==
    [][event'.op = "wordClick" =>
        LET e == event'.arg[1]
            before == Range(selectedIds)
            after == Range(selectedIds')
        IN  IF ~e.fieldMode
            THEN UNCHANGED <<overlayVars, storeVars, appVars>>
            ELSE /\ Len(selectedIds') = Cardinality(after)
                 /\ IF e.shiftKey
                    THEN after = IF e.id \in before
                                 THEN before \ {e.id}
                                 ELSE before \cup {e.id}
                    ELSE IF before = {e.id}
                    THEN after = {}
                    ELSE after = {e.id}]_vars

\* A shift-click has left two words selected
C27_Witness ==
    /\ event.op = "wordClick"
    /\ event.arg[1].fieldMode
    /\ event.arg[1].shiftKey
    /\ Len(selectedIds) = 2
    /\ SetHas(selectedIds, event.arg[1].id)

\* The pointer is over a word box or over a committed field box of the page
OverBox(pt) ==
    \/ \E i \in 1..Len(Words) :
        /\ Words[i].bbox.x0 <= pt.x /\ pt.x < Words[i].bbox.x1
        /\ Words[i].bbox.y0 <= pt.y /\ pt.y < Words[i].bbox.y1
    \/ \E i \in 1..Len(GetPageFields(fields, currentPage)) :
        LET b == GetPageFields(fields, currentPage)[i].bbox
        IN  b.x0 <= pt.x /\ pt.x < b.x1 /\ b.y0 <= pt.y /\ pt.y < b.y1

\* C28: a drag starts only by a pointer-down in field mode at a point that is
\* over no word box and no field box, and a click on a word box starts no
\* drag, produces no pending capture and does not open the label prompt
C28_DragOnlyFromBackground ==
    /\ [][(dragState = None /\ dragState' # None) =>
            /\ event'.op = "mouseDown"
            /\ isFieldMode
            /\ dragState'[1].current = dragState'[1].start
            /\ ~OverBox(dragState'[1].start)]_vars
    /\ [][event'.op = "wordClick" =>
            /\ dragState' = None
            /\ pendingRect' = pendingRect
            /\ labelPopup' => labelPopup]_vars

\* A drag has started on the background of an overlay that shows a field box
\* and a word box, each under a point the pointer can go down at
C28_Witness ==
    /\ event.op = "mouseDown"
    /\ dragState # None
    /\ \E pt \in ClickPoints :
        \E i \in 1..Len(GetPageFields(fields, currentPage)) :
            InsideBox(pt, GetPageFields(fields, currentPage)[i].bbox)
    /\ \E pt \in ClickPoints :
        \E i \in 1..Len(Words) : InsideBox(pt, Words[i].bbox)

---------------------------------------------------------------------------
(* Claims about the shared OCR worker (checked under SpecWorker) *)

\* C30: however the calls of initOCR interleave, createWorker() is called at
\* most once, and every caller that receives a worker receives the one that
\* call created, which is workerInstance
C30_AtMostOneWorker ==
    /\ Len(creations) <= 1
    /\ \A c \in Callers :
        callers[c].at = "returned" =>
            /\ callers[c].of = 1
            /\ workerInstance = Some(callers[c].of)
    /\ \A c, d \in Callers :
        (callers[c].at = "returned" /\ callers[d].at = "returned") =>
            callers[c].of = callers[d].of

\* Every caller has its worker: at least one called while the creation was
\* pending and at least one after workerInstance was set
C30_Witness ==
    /\ \A c \in Callers : callers[c].at = "returned"
    /\ \E c, d \in Callers :
        /\ c # d
        /\ callers[c].on = "promise"
        /\ callers[d].on = "promise"
    /\ \E c \in Callers : callers[c].on = "worker"
    /\ Len(creations) = 1

---------------------------------------------------------------------------
(* Frame conditions of removeField and updateLabel (checked under SpecStore) *)

\* C33: removeField(id, page) is page-scoped and a no-op for an absent id:
\* the field sequence of every other page is what it was (a field with that
\* id under another page stays), and when no field of `page` has the id,
\* every page's field sequence and the color counter are what they were
C33_RemoveIsPageScoped ==
    event.op = "removeField" =>
        LET e == event.arg[1]
        IN  /\ \A p \in Pages \ {e.pageNumber} :
                GetPageFields(fields, p) = GetPageFields(e.fields, p)
            /\ e.id \notin IdsOn(e.fields, e.pageNumber) =>
                /\ \A p \in Pages :
                    GetPageFields(fields, p) = GetPageFields(e.fields, p)
                /\ colorIndex = e.colorIndex

\* removeField was called with the id of a field of the other page, and
\* that field is still there
C33_Witness ==
    /\ event.op = "removeField"
    /\ \E q \in Pages \ {event.arg[1].pageNumber} :
        /\ event.arg[1].id \in IdsOn(event.arg[1].fields, q)
        /\ event.arg[1].id \in IdsOn(fields, q)
    /\ event.arg[1].id \notin IdsOn(event.arg[1].fields, event.arg[1].pageNumber)
    /\ GetPageFields(fields, event.arg[1].pageNumber) # <<>>

\* C34: updateLabel(id, page, label) on an existing field changes only that
\* field's label: every page keeps the length and order of its sequence, the
\* field with the id differs from what it was in its label alone (which is
\* the label given), every other field and the color counter are unchanged
C34_UpdateLabelOnlyLabel ==
    (/\ event.op = "updateLabel"
     /\ event.arg[1].id \in IdsOn(event.arg[1].fields, event.arg[1].pageNumber))
    => LET e == event.arg[1]
       IN  /\ colorIndex = e.colorIndex
           /\ \A p \in Pages :
               /\ Len(GetPageFields(fields, p)) = Len(GetPageFields(e.fields, p))
               /\ \A i \in 1..Len(GetPageFields(fields, p)) :
                   LET old == GetPageFields(e.fields, p)[i]
                       new == GetPageFields(fields, p)[i]
                   IN  IF p = e.pageNumber /\ old.id = e.id
                       THEN new = [old EXCEPT !.label = NewLabel]
                       ELSE new = old

\* updateLabel renamed the second of three fields of page 1; the first and
\* the third still have the label they were created with
C34_Witness ==
    /\ event.op = "updateLabel"
    /\ event.arg[1].pageNumber = 1
    /\ Len(GetPageFields(fields, 1)) = 3
    /\ GetPageFields(event.arg[1].fields, 1)[2].id = event.arg[1].id
    /\ GetPageFields(event.arg[1].fields, 1)[2].label = StoreLabel
    /\ GetPageFields(fields, 1)[2].label = NewLabel
    /\ GetPageFields(fields, 1)[1].label = StoreLabel
    /\ GetPageFields(fields, 1)[3].label = StoreLabel

---------------------------------------------------------------------------
(* The pending rectangle and its label prompt (checked under SpecClicks) *)

\* C35: whenever a rectangle capture is pending (pendingRect is set) its
\* label prompt is open: no state has pendingRect set and labelPopup closed
C35_PendingRectHasPrompt ==
    pendingRect # None => labelPopup

---------------------------------------------------------------------------
(* The slicing branch of captureTextInBox (checked under SpecCapture) *)

\* The loop body reaches the proportional-slicing branch for this word
ReachesSlicing(word, box) ==
    /\ RowTest(word, box)
    /\ HasOverlap(word, box)
    /\ Len(word.text) # 0
    /\ ~FullyInside(word, box)

\* C36: whenever the slicing branch is reached the word's width is strictly
\* positive and 0 <= startChar <= endChar <= n, and the one-sided clamps of
\* the code give the ratios and indices of the two-sided clamp(.., 0, 1)
C36_SlicingIndicesInRange ==
    \A i \in 1..Len(capWords) :
        ReachesSlicing(capWords[i], capBox) =>
            LET w == capWords[i]
                width == w.bbox.x1 - w.bbox.x0
                n == Len(w.text)
            IN  /\ width > 0
                /\ 0 <= StartChar(w, capBox)
                /\ StartChar(w, capBox) <= EndChar(w, capBox)
                /\ EndChar(w, capBox) <= n
                /\ StartRatioNum(w, capBox)
                     = ClampRatioNum(capBox.x0 - w.bbox.x0, width)
                /\ EndRatioNum(w, capBox)
                     = ClampRatioNum(capBox.x1 - w.bbox.x0, width)
                /\ StartChar(w, capBox)
                     = RoundHalfUp(ClampRatioNum(capBox.x0 - w.bbox.x0, width) * n,
                                   width)
                /\ EndChar(w, capBox)
                     = RoundHalfUp(ClampRatioNum(capBox.x1 - w.bbox.x0, width) * n,
                                   width)

\* A call has sliced one word on both sides (the region starts and ends
\* inside it) next to a word of no width that the overlap test dropped
C36_Witness ==
    /\ capDone
    /\ \E i \in 1..Len(capWords) :
        /\ ReachesSlicing(capWords[i], capBox)
        /\ capBox.x0 > capWords[i].bbox.x0
        /\ capBox.x1 < capWords[i].bbox.x1
        /\ 0 < StartChar(capWords[i], capBox)
        /\ EndChar(capWords[i], capBox) < Len(capWords[i].text)
    /\ \E j \in 1..Len(capWords) :
        /\ capWords[j].bbox.x0 = capWords[j].bbox.x1
        /\ RowTest(capWords[j], capBox)

---------------------------------------------------------------------------
(* Row order of captureTextInBox (checked under SpecCapture) *)

\* C37 as stated: for any two captured words whose tops differ by more than
\* ROW_TOL, the one with the smaller y0 comes first in text and wordIds,
\* whatever the input order and whatever other words are captured
C37_RowOrder ==
    capDone =>
        \A i, j \in 1..Len(captured) :
            captured[i].y0 + ROW_TOL < captured[j].y0 =>
                /\ i < j
                /\ \E k, l \in 1..Len(capResult.wordIds) :
                    /\ k < l
                    /\ capResult.wordIds[k] = captured[i].id
                    /\ capResult.wordIds[l] = captured[j].id

---------------------------------------------------------------------------
(* The canvas runOCR reads (checked under SpecPages) *)

\* C39: whenever runOCR reads lastCanvasRef, that canvas shows currentPage:
\* every recognition call was handed the canvas of the page it stores its
\* result under, however navigation, render completion and Run OCR interleave
C39_CanvasShowsRecognizedPage ==
    \A call \in recognitions : call.canvas = call.pageNumber

---------------------------------------------------------------------------
(* Claims about terminateOCR (checked under SpecWorkerLife) *)

\* No call of initOCR or terminateOCR is still awaiting anything
AllSettled ==
    /\ \A c \in Callers : callers[c].at # "awaiting"
    /\ \A k \in 1..Len(creations) : creations[k] # "pending"
    /\ terminations = EmptyBag

\* C40: once all calls of initOCR and terminateOCR have settled and the last
\* call issued was terminateOCR, every worker that was created has been
\* terminated and workerInstance and initPromise are both null
C40_TerminateLeavesNoWorker ==
    (AllSettled /\ lastIssued = "terminateOCR") =>
        /\ workerInstance = None
        /\ initPromise = None
        /\ \A k \in 1..Len(creations) :
            creations[k] = "fulfilled" => k \in terminated

---------------------------------------------------------------------------
(* Claims about opening another file (checked under SpecDocs) *)

\* C31: after handleOpenFile, ocrResults and digitizedPages never hold an
\* entry produced from a previous document, also when an extraction or a
\* recognition that started before the file was opened completes afterwards
C31_NoEntryFromPreviousFile ==
    \A p \in Pages :
        /\ ocrResults[p] # None => producedBy.results[p] = Some(fileNo)
        /\ p \in digitizedPages => producedBy.digitized[p] = Some(fileNo)

\* C32: with recognition started only by the Run OCR button, at most one
\* recognition call is in flight at any time, and isOCRRunning is true
\* exactly when one is
C32_OneRecognitionInFlight ==
    /\ Cardinality(recognitions) <= 1
    /\ isOCRRunning <=> recognitions # {}

\* A recognition is in flight across handleOpenFile and the load of the new
\* document: the button is still disabled
C32_Witness ==
    /\ fileNo = 2
    /\ numPages # 0
    /\ lastCanvasRef # None
    /\ isOCRRunning
    /\ \E call \in recognitions : call.file = 1
    /\ ~ENABLED RunOCR

---------------------------------------------------------------------------
(* The field store across handleOpenFile (checked under SpecReopen) *)

\* C38: after handleOpenFile for a new document the field store holds no
\* field created on the previous document: right after the call, before any
\* field can have been committed on the new document, getPageFields(p) is
\* empty for every page p
C38_OpenFileEmptiesFieldStore ==
    event.op = "openFile" =>
        \A p \in Pages : GetPageFields(fields, p) = <<>>

====
